---- MODULE Spec2Model ----
(***************************************************************************)
(* Model of the SAP intake back end (app/sap, app/auth, app/db).           *)
(*                                                                         *)
(* The relational store is modelled as the committed tables plus, for      *)
(* every worker, the rows its open SQLAlchemy session has added or         *)
(* flushed but not committed.  A handler that needs interleaving or a      *)
(* failure between its steps is split into one action per step.            *)
(*                                                                         *)
(* Text is modelled by TLA+ strings; str.lower(), str.strip() and SQL      *)
(* ILIKE '%x%' are tables over the finite universe of strings the model    *)
(* draws its inputs from.  A date string is the record of its spelling     *)
(* (numbers, zero padding, layout) so that strptime and strftime are       *)
(* computed and are not inverse to each other on every spelling.           *)
(***************************************************************************)
EXTENDS Integers, Sequences, FiniteSets, TLC

VARIABLES
    now,                \* wall clock, in minutes
    districts,          \* committed rows of table districts
    schools,            \* committed rows of table schools
    dashboard_records,  \* committed rows of table dashboard_records
    intake_queue,       \* committed rows of table intake_queue
    audit_logs,         \* committed rows of table audit_logs
    files,              \* file names present in UPLOAD_DIR
    seq,                \* database sequences and the uuid4 source
    sess,               \* per worker: the request in progress and its session
    nreq,               \* number of requests started so far
    resp,               \* the response sent last
    env,                \* what the environment may do: request cap and offered forms
    scope_resp,         \* last response of a dashboard (scope resolved) endpoint
    dup_case,           \* inputs and result of an isolated duplicate check
    calc,               \* inputs and results of an isolated call of utils.py
    vault,              \* utils.py's global _fernet and the threads that use it
    auth                \* tables users, otp_verifications, password_reset_tokens, mail

vars == <<now, districts, schools, dashboard_records, intake_queue,
          audit_logs, files, seq, sess, nreq, resp, env, scope_resp, dup_case,
                   calc, vault, auth>>

dbvars == <<districts, schools, dashboard_records, intake_queue, audit_logs>>

(***************************************************************************)
(* Bounds of the model.                                                    *)
(***************************************************************************)
MaxTime == 6
MaxReq == 2
MaxSeqReq == 3
MaxAccessReq == 3
MaxScopeReq == 2
MaxStatusReq == 4
MaxStatusTime == 2
MaxUpdateReq == 3
MaxExpiryReq == 3
MaxViewReq == 3
MaxVaultCalls == 3
MaxRaceReq == 3
MaxRaceTime == 1
MaxNewSchoolReq == 3
MaxSpanYears == 2
MaxOtpCalls == 4
MaxResetCalls == 4
MaxAuthTime == 20
AuthTickMinutes == 5

Workers == {"w1", "w2"}

(***************************************************************************)
(* Python None / SQL NULL, one per value type.                             *)
(***************************************************************************)
None == "<None>"
NoId == 0
NoDate == [y |-> 0, m |-> 0, d |-> 0]
NoTime == -1

Falsy(v) == v \in {None, ""}

(***************************************************************************)
(* Text helpers.                                                           *)
(***************************************************************************)
\* str.lower() on the strings of the model's universe
LowerTable ==
    [s \in {"Ana", "ANA", "Lee", "LEE", "Ana@Example.com", "Oak", "Oak Hill",
            "Ash", "Elm", "Ben", "Cy", "True", "TRUE", "Yes", "No", "False"} |->
        CASE s = "Ana" -> "ana" [] s = "ANA" -> "ana"
          [] s = "Lee" -> "lee" [] s = "LEE" -> "lee"
          [] s = "Ana@Example.com" -> "ana@example.com"
          [] s = "Oak" -> "oak" [] s = "Oak Hill" -> "oak hill"
          [] s = "Ash" -> "ash" [] s = "Elm" -> "elm"
          [] s = "Ben" -> "ben" [] s = "Cy" -> "cy"
          [] s = "True" -> "true" [] s = "TRUE" -> "true"
          [] s = "Yes" -> "yes" [] s = "No" -> "no"
          [] s = "False" -> "false"]

Lower(s) == IF s \in DOMAIN LowerTable THEN LowerTable[s] ELSE s

\* str.strip() on the strings of the model's universe
StripTable ==
    [s \in {"Ana ", " Lee", "   ", " Oak ", " ", "th "} |->
        CASE s = "Ana " -> "Ana" [] s = " Lee" -> "Lee"
          [] s = "   " -> "" [] s = " Oak " -> "Oak"
          [] s = " " -> "" [] s = "th " -> "th"]

Strip(s) == IF s \in DOMAIN StripTable THEN StripTable[s] ELSE s

\* str.upper() on the grade spellings of the model's universe
UpperTable ==
    [s \in {"th", "st", "nd", "rd", "k", "pk", "Pre-K", "PreK", "pre-k", "prek",
            "Kindergarten", "kindergarten", "first", "x"} |->
        CASE s = "th" -> "TH" [] s = "st" -> "ST" [] s = "nd" -> "ND"
          [] s = "rd" -> "RD" [] s = "k" -> "K" [] s = "pk" -> "PK"
          [] s = "Pre-K" -> "PRE-K" [] s = "pre-k" -> "PRE-K"
          [] s = "PreK" -> "PREK" [] s = "prek" -> "PREK"
          [] s = "Kindergarten" -> "KINDERGARTEN"
          [] s = "kindergarten" -> "KINDERGARTEN"
          [] s = "first" -> "FIRST" [] s = "x" -> "X"]

Upper(s) == IF s \in DOMAIN UpperTable THEN UpperTable[s] ELSE s

\* lower-case needle / haystack pairs for which haystack contains needle
SubstringPairs ==
    {<<"oak", "oak">>, <<"oak", "oak hill">>, <<"oak hill", "oak hill">>,
     <<"ash", "ash">>, <<"elm", "elm">>, <<"hill", "oak hill">>}

\* SQL: hay ILIKE '%' || needle || '%'
ILikeContains(hay, needle) ==
    \/ Lower(needle) = ""
    \/ <<Lower(needle), Lower(hay)>> \in SubstringPairs

(***************************************************************************)
(* Dates.  A date is [y, m, d]; a date string is the record of how it is   *)
(* spelled: layout "iso" is Y-M-D with '-' separators, "us" is M/D/Y.      *)
(* mpad / dpad tell whether month and day are written with two digits.     *)
(***************************************************************************)
DateStr(y, m, d, mpad, dpad, layout) ==
    [y |-> y, m |-> m, d |-> d, mpad |-> mpad, dpad |-> dpad, layout |-> layout]

NoDateStr == DateStr(0, 0, 0, FALSE, FALSE, "none")

DaysIn(y, m) ==
    IF m \in {4, 6, 9, 11} THEN 30
    ELSE IF m = 2 THEN (IF y % 4 = 0 /\ (y % 100 # 0 \/ y % 400 = 0) THEN 29 ELSE 28)
    ELSE 31

\* datetime.strptime(s, "%Y-%m-%d"): %m and %d accept one or two digits
StrptimeOk(s) ==
    /\ s.layout = "iso"
    /\ s.y \in 1..9999
    /\ s.m \in 1..12
    /\ s.d \in 1..DaysIn(s.y, s.m)

Strptime(s) == [y |-> s.y, m |-> s.m, d |-> s.d]

\* date.strftime("%Y-%m-%d"): always two digits for month and day
Strftime(dt) == DateStr(dt.y, dt.m, dt.d, TRUE, TRUE, "iso")

(***************************************************************************)
(* Program constants.                                                      *)
(***************************************************************************)
DupWindowMinutes == 5
RetentionDays == 45
OTP_EXPIRY_MINUTES == 10
RESET_TOKEN_EXPIRY_MINUTES == 15
MAX_FILE_SIZE == 5 * 1024 * 1024
PILLOW_AVAILABLE == TRUE

AllowedSeverity == {"mild", "moderate", "severe"}
AllowedRequestTypes == {"start_now", "opt_in_future"}
AllowedStatuses_Wide == {"pending", "processed", "active", "submitted"}

AllowedStatuses == {"pending", "processed", "active"}

\* status_map.get(service_status, "pending") of check_intake_status
StatusMap(service_status) ==
    CASE service_status \in {"pending", "active", "processed"} -> service_status
      [] service_status \in {"completed", "cancelled"} -> "processed"
      [] OTHER -> "pending"

\* the status_map of get_intake_form_details and update_intake_form has the
\* further entry "submitted": "submitted"
DetailsStatusMap(service_status) ==
    IF service_status = "submitted" THEN "submitted" ELSE StatusMap(service_status)
TruthyWords == {"yes", "true", "1"}
ALLOWED_EXTENSIONS == {".jpg", ".jpeg", ".png"}
ALLOWED_MIME_TYPES == {"image/jpeg", "image/jpg", "image/png"}

\* every submission of the model is made within one calendar day
EpochDate == [y |-> 2025, m |-> 11, d |-> 5]
DateOf(t) == EpochDate

(***************************************************************************)
(* routes.py helpers                                                       *)
(***************************************************************************)
\* parse_nested_field: str(value).strip() if value else None
parse_nested_field(value) == IF Falsy(value) THEN None ELSE Strip(value)

\* parse_array_field: the stripped, non-empty values of prefix[0], prefix[1], ...
parse_array_field(values) ==
    LET stripped == [i \in DOMAIN values |-> Strip(values[i])]
    IN  SelectSeq(stripped, LAMBDA v : ~Falsy(v))

SeqToSet(sq) == {sq[i] : i \in DOMAIN sq}

(***************************************************************************)
(* utils.py                                                                *)
(***************************************************************************)
\* the value of ENCRYPTION_KEY when it is set
EnvKey == "gAAAAA"

\* Fernet(key).encrypt(x): the token names the key that signed it
FernetEncrypt(key, x) == key \o ":" \o x

\* Fernet token of a non-empty plaintext under the process key
Ciphertext(x) == FernetEncrypt(EnvKey, x)

\* encrypt_phi: b'' for empty input, otherwise the Fernet token
encrypt_phi(data) == IF Falsy(data) THEN "" ELSE Ciphertext(data)

\* the plaintexts of the model's universe
Plaintexts == {"Ana", "ana@example.com", "Zo\\u00eb", " ", "S-1"}

\* Fernet(key).decrypt(token): the plaintext when the token's signature
\* verifies under key, otherwise it raises InvalidToken
InvalidToken == "<InvalidToken>"
FernetDecrypt(key, token) ==
    IF \E x \in Plaintexts : token = FernetEncrypt(key, x)
    THEN CHOOSE x \in Plaintexts : token = FernetEncrypt(key, x)
    ELSE InvalidToken

\* the result of decrypt_phi for what Fernet.decrypt did: except Exception
\* returns None
DecryptResult(decrypted) == IF decrypted = InvalidToken THEN None ELSE decrypted

\* decrypt_phi: None for empty input
decrypt_phi(encrypted_data) ==
    IF encrypted_data = "" THEN None
    ELSE DecryptResult(FernetDecrypt(EnvKey, encrypted_data))

\* A grade string is the record of its spelling: an optional run of digits
\* (num, NoNum when absent) followed by the text rest.
NoNum == -1
GradeStr(num, rest) == [num |-> num, rest |-> rest]

GradeBandOf_Shifted(grade_num) ==
    IF grade_num < 5 THEN "K-5" ELSE IF grade_num < 8 THEN "6-8" ELSE "9-12"

\* the band of a numeric grade
GradeBandOf(grade_num) ==
    IF grade_num <= 5 THEN "K-5" ELSE IF grade_num <= 8 THEN "6-8" ELSE "9-12"

\* calculate_grade_band: grade_str = str(grade_level).strip().upper() is the
\* digits followed by up; int() of the digits alone succeeds, int() of an
\* empty string or of digits followed by text raises ValueError
calculate_grade_band(grade) ==
    LET up == Upper(Strip(grade.rest))
        ordinal == up \in {"TH", "ST", "ND", "RD", "FIRST"}
        grade_num == IF ordinal
                     THEN (IF up \in {"TH", "ST", "ND", "RD"} THEN grade.num ELSE NoNum)
                     ELSE IF up = "" THEN grade.num ELSE NoNum
    IN  IF grade_num # NoNum
        THEN GradeBandOf(grade_num)
        ELSE IF grade.num = NoNum /\ up \in {"K", "PK", "PRE-K", "PREK", "KINDERGARTEN"}
             THEN "K-5"
             ELSE "K-5"

calculate_fiscal_period_Calendar(dt) == [fy |-> dt.y, q |-> ((dt.m - 1) \div 3) + 1]

\* calculate_fiscal_period: "FY{fiscal_year}-Q{quarter}"
calculate_fiscal_period(dt) ==
    IF dt.m >= 7
    THEN [fy |-> dt.y + 1, q |-> ((dt.m - 7) \div 3) + 1]
    ELSE [fy |-> dt.y, q |-> ((dt.m + 5) \div 3) + 1]

\* calculate_expires_at
calculate_expires_at(t) == t + RetentionDays * 24 * 60

(***************************************************************************)
(* file_storage.py                                                         *)
(***************************************************************************)
NoFile == [present |-> FALSE, ext |-> "", mime |-> "", size |-> 0, image |-> FALSE]
GoodFile == [present |-> TRUE, ext |-> ".jpg", mime |-> "image/jpeg", size |-> 1000, image |-> TRUE]
BadFile == [present |-> TRUE, ext |-> ".pdf", mime |-> "application/pdf", size |-> 1000, image |-> FALSE]

\* validate_image_file
validate_image_file(file) ==
    /\ file.ext \in ALLOWED_EXTENSIONS
    /\ file.mime \in ALLOWED_MIME_TYPES

\* save_insurance_card raises HTTPException(400) unless this holds
CardAccepted(file) ==
    /\ validate_image_file(file)
    /\ file.size <= MAX_FILE_SIZE
    /\ (PILLOW_AVAILABLE => file.image)

\* the unique file name "{student_uuid}_{side}_{uuid4().hex[:8]}{ext}"
CardFileName(student_uuid, side, n) == <<student_uuid, side, n>>
NoFileName == <<0, "", 0>>

(***************************************************************************)
(* Users.  Table users has the columns role, district_id and school_id     *)
(* (added at start-up); admin_email tells whether the user's e-mail is     *)
(* listed in settings.VPM_ADMIN_EMAILS.                                    *)
(***************************************************************************)
UserRow(id, admin_email, role, district_id) ==
    [id |-> id, admin_email |-> admin_email, role |-> role, district_id |-> district_id]

Users ==
    { UserRow(1, TRUE, None, NoId),             \* listed admin, no stored role
      UserRow(2, FALSE, "district-admin", 1),   \* district user, home district 1
      UserRow(3, FALSE, None, 1),               \* no stored role
      UserRow(4, FALSE, "admin", 1) }           \* stored role admin, e-mail not listed

UserIds == {u.id : u \in Users}
UserById(id) == CHOOSE u \in Users : u.id = id

\* _apply_user_access_context
_apply_user_access_context(user) ==
    IF ~Falsy(user.role)
    THEN (IF user.role = "admin" THEN [user EXCEPT !.district_id = NoId] ELSE user)
    ELSE IF user.admin_email
         THEN [user EXCEPT !.role = "admin", !.district_id = NoId]
         ELSE [user EXCEPT !.role = "user", !.district_id = NoId]

\* get_user_from_token for a valid token of user id
get_user_from_token(id) == _apply_user_access_context(UserById(id))

\* is_vpm_admin
is_vpm_admin(user) == user.admin_email

(***************************************************************************)
(* The submitted multipart form (raw values, before parsing).              *)
(***************************************************************************)
NoGrade == GradeStr(NoNum, "")

BaseForm ==
    [ first_name |-> "Ana", last_name |-> "Lee", full_name |-> "Ana Lee",
      grade |-> GradeStr(10, "th"), school |-> "Oak",
      dob |-> DateStr(2012, 4, 1, TRUE, TRUE, "iso"), student_id |-> "S-1",
      parent_name |-> "Pat Lee", parent_email |-> "ana@example.com",
      parent_phone |-> "555-0100",
      service_request_type |-> "start_now",
      has_insurance |-> "no", insurance_company |-> None,
      policyholder_name |-> None, relationship |-> None,
      member_id |-> None, group_number |-> None,
      service_category |-> <<"Counseling">>, service_category_other |-> None,
      severity_of_concern |-> "mild",
      type_of_service_needed |-> <<"Individual">>,
      family_resources |-> <<>>, referral_concern |-> <<>>,
      sex_at_birth |-> None, race |-> <<>>, race_other |-> None,
      ethnicity |-> <<>>,
      immediate_safety_concern |-> "no", authorization_consent |-> "true",
      captcha_token |-> "tok",
      insurance_card_front |-> NoFile, insurance_card_back |-> NoFile ]

InsuredForm ==
    [BaseForm EXCEPT !.has_insurance = "Yes", !.insurance_company = "Acme Health",
                     !.policyholder_name = "Pat Lee", !.member_id = "M-77",
                     !.first_name = "Bo", !.full_name = "Bo Lee",
                     !.parent_email = "bo@example.com"]

\* forms that pass validation
ValidForms ==
    { BaseForm,
      [BaseForm EXCEPT !.first_name = "ANA", !.parent_email = "Ana@Example.com"],
      [BaseForm EXCEPT !.dob = DateStr(2012, 4, 1, FALSE, FALSE, "iso")],
      [BaseForm EXCEPT !.school = "Ash", !.service_request_type = "opt_in_future"],
      [InsuredForm EXCEPT !.insurance_card_front = GoodFile],
      [InsuredForm EXCEPT !.insurance_card_front = GoodFile,
                          !.insurance_card_back = BadFile] }

\* forms that fail one validation rule each
InvalidForms ==
    { [BaseForm EXCEPT !.first_name = None],
      [BaseForm EXCEPT !.student_id = "   "],
      [BaseForm EXCEPT !.authorization_consent = "False"],
      [BaseForm EXCEPT !.has_insurance = "yes"],
      [BaseForm EXCEPT !.service_category = <<>>],
      [BaseForm EXCEPT !.service_category = <<"Other Service">>],
      [BaseForm EXCEPT !.severity_of_concern = "high"],
      [BaseForm EXCEPT !.type_of_service_needed = <<"   ">>],
      [BaseForm EXCEPT !.race = <<"Other (please specify)">>],
      [BaseForm EXCEPT !.service_request_type = "later"],
      [BaseForm EXCEPT !.dob = DateStr(2012, 4, 1, TRUE, TRUE, "us")],
      [BaseForm EXCEPT !.dob = DateStr(2012, 2, 30, TRUE, TRUE, "iso")] }

Forms == ValidForms \cup InvalidForms

\* outcomes of validate_captcha: passes, or raises with one of these codes
CaptchaOutcomes == {200, 400}

FalsyGrade(g) == g = NoGrade
FalsyDateStr(s) == s = NoDateStr

\* step 2 of submit_intake_form: the parsed fields
Parsed(f) ==
    [ f EXCEPT
      !.first_name = parse_nested_field(f.first_name),
      !.last_name = parse_nested_field(f.last_name),
      !.full_name = parse_nested_field(f.full_name),
      !.school = parse_nested_field(f.school),
      !.student_id = parse_nested_field(f.student_id),
      !.parent_name = parse_nested_field(f.parent_name),
      !.parent_email = parse_nested_field(f.parent_email),
      !.parent_phone = parse_nested_field(f.parent_phone),
      !.service_request_type = parse_nested_field(f.service_request_type),
      !.has_insurance = parse_nested_field(f.has_insurance),
      !.insurance_company = parse_nested_field(f.insurance_company),
      !.policyholder_name = parse_nested_field(f.policyholder_name),
      !.relationship = parse_nested_field(f.relationship),
      !.member_id = parse_nested_field(f.member_id),
      !.group_number = parse_nested_field(f.group_number),
      !.service_category = parse_array_field(f.service_category),
      !.service_category_other = parse_nested_field(f.service_category_other),
      !.severity_of_concern = parse_nested_field(f.severity_of_concern),
      !.type_of_service_needed = parse_array_field(f.type_of_service_needed),
      !.family_resources = parse_array_field(f.family_resources),
      !.referral_concern = parse_array_field(f.referral_concern),
      !.sex_at_birth = parse_nested_field(f.sex_at_birth),
      !.race = parse_array_field(f.race),
      !.race_other = parse_nested_field(f.race_other),
      !.ethnicity = parse_array_field(f.ethnicity),
      !.immediate_safety_concern = parse_nested_field(f.immediate_safety_concern),
      !.authorization_consent = parse_nested_field(f.authorization_consent),
      !.captcha_token = parse_nested_field(f.captcha_token) ]

\* step 3: some required field is missing
MissingRequired(pf) ==
    \/ Falsy(pf.first_name) \/ Falsy(pf.last_name) \/ Falsy(pf.full_name)
    \/ FalsyGrade(pf.grade) \/ Falsy(pf.school) \/ FalsyDateStr(pf.dob)
    \/ Falsy(pf.student_id)
    \/ Falsy(pf.parent_name) \/ Falsy(pf.parent_email) \/ Falsy(pf.parent_phone)
    \/ Falsy(pf.service_request_type) \/ Falsy(pf.has_insurance)
    \/ Falsy(pf.immediate_safety_concern) \/ Falsy(pf.authorization_consent)

HasInsurance(pf) == Lower(pf.has_insurance) \in TruthyWords

SubmitValidation_NoSeverity(pf, captcha) ==
    IF MissingRequired(pf) THEN 422
    ELSE IF captcha # 200 THEN captcha
    ELSE IF Lower(pf.authorization_consent) # "true" THEN 400
    ELSE IF HasInsurance(pf)
            /\ (Falsy(pf.insurance_company) \/ Falsy(pf.policyholder_name)
                \/ Falsy(pf.member_id)) THEN 422
    ELSE IF pf.service_category = <<>> THEN 422
    ELSE IF "Other Service" \in SeqToSet(pf.service_category)
            /\ Falsy(pf.service_category_other) THEN 422
    ELSE IF pf.type_of_service_needed = <<>> THEN 422
    ELSE IF "Other (please specify)" \in SeqToSet(pf.race)
            /\ Falsy(pf.race_other) THEN 422
    ELSE IF pf.service_request_type \notin AllowedRequestTypes THEN 422
    ELSE IF ~StrptimeOk(pf.dob) THEN 422
    ELSE 200

\* steps 3 to 8 of submit_intake_form: the status code of the first rule
\* that rejects the form, 200 when every rule passes
SubmitValidation(pf, captcha) ==
    IF MissingRequired(pf) THEN 422
    ELSE IF captcha # 200 THEN captcha
    ELSE IF Lower(pf.authorization_consent) # "true" THEN 400
    ELSE IF HasInsurance(pf)
            /\ (Falsy(pf.insurance_company) \/ Falsy(pf.policyholder_name)
                \/ Falsy(pf.member_id)) THEN 422
    ELSE IF pf.service_category = <<>> THEN 422
    ELSE IF "Other Service" \in SeqToSet(pf.service_category)
            /\ Falsy(pf.service_category_other) THEN 422
    ELSE IF Falsy(pf.severity_of_concern) THEN 422
    ELSE IF pf.severity_of_concern \notin AllowedSeverity THEN 422
    ELSE IF pf.type_of_service_needed = <<>> THEN 422
    ELSE IF "Other (please specify)" \in SeqToSet(pf.race)
            /\ Falsy(pf.race_other) THEN 422
    ELSE IF pf.service_request_type \notin AllowedRequestTypes THEN 422
    ELSE IF ~StrptimeOk(pf.dob) THEN 422
    ELSE 200

(***************************************************************************)
(* security.py                                                             *)
(***************************************************************************)
OrEmpty(v) == IF v = None THEN "" ELSE v

\* check_duplicate_submission over the intake_queue rows the session sees
check_duplicate_submission(rows, student_first_name, student_last_name, date_of_birth, parent_email, t) ==
    LET cutoff_time == t - DupWindowMinutes
        recent_intakes == {q \in rows : q.created_at >= cutoff_time}
        stored_dob_str(q) == IF q.date_of_birth = NoDate THEN NoDateStr
                             ELSE Strftime(q.date_of_birth)
    IN  \E intake \in recent_intakes :
            /\ Lower(OrEmpty(intake.student_first_name)) = Lower(student_first_name)
            /\ Lower(OrEmpty(intake.student_last_name)) = Lower(student_last_name)
            /\ stored_dob_str(intake) = date_of_birth
            /\ Lower(OrEmpty(intake.parent_email)) = Lower(parent_email)

(***************************************************************************)
(* Rows (models.py)                                                        *)
(***************************************************************************)
District(id, name, code) == [id |-> id, name |-> name, code |-> code]

School(id, district_id, name) == [id |-> id, district_id |-> district_id, name |-> name]

\* json.dumps of a list of strings: the JSON text, kept as the record of
\* what it spells; NoJson is the NULL of a JSON text column
JsonDumps(list) == [json |-> list]
NoJson == [json |-> <<None>>]
JsonOrNone(list) == IF list = <<>> THEN NoJson ELSE JsonDumps(list)
\* parse_json_array: [] for NULL
parse_json_array(text_value) == IF text_value = NoJson THEN <<>> ELSE text_value.json

\* step 13 of submit_intake_form
DashboardRecord(id, student_uuid, school, pf, t) ==
    [ id |-> id, student_uuid |-> student_uuid,
      district_id |-> school.district_id, school_id |-> school.id,
      student_name |-> pf.full_name,
      grade_band |-> calculate_grade_band(pf.grade),
      referral_source |-> "parent",
      opt_in_type |-> IF pf.service_request_type = "start_now"
                      THEN "immediate_service" ELSE "future_eligibility",
      referral_date |-> DateOf(t),
      fiscal_period |-> calculate_fiscal_period(DateOf(t)),
      insurance_present |-> HasInsurance(pf),
      service_status |-> "pending",
      created_at |-> t, updated_at |-> NoTime ]

\* step 15 of submit_intake_form
IntakeQueue(dashboard_record_id, pf, front_card_path, back_card_path, t) ==
    [ id |-> NoId, dashboard_record_id |-> dashboard_record_id,
      student_first_name |-> pf.first_name,
      student_last_name |-> pf.last_name,
      student_full_name |-> pf.full_name,
      student_id |-> IF ~Falsy(pf.student_id) THEN pf.student_id ELSE None,
      student_grade |-> pf.grade,
      date_of_birth |-> Strptime(pf.dob),
      parent_name |-> pf.parent_name,
      parent_email |-> pf.parent_email,
      parent_phone |-> pf.parent_phone,
      insurance_company |-> IF ~Falsy(pf.insurance_company) THEN pf.insurance_company ELSE None,
      policyholder_name |-> IF ~Falsy(pf.policyholder_name) THEN pf.policyholder_name ELSE None,
      relationship_to_student |-> IF ~Falsy(pf.relationship) THEN pf.relationship ELSE None,
      member_id |-> IF ~Falsy(pf.member_id) THEN pf.member_id ELSE None,
      group_number |-> IF ~Falsy(pf.group_number) THEN pf.group_number ELSE None,
      insurance_card_front_url |-> front_card_path,
      insurance_card_back_url |-> back_card_path,
      service_category |-> JsonDumps(pf.service_category),
      service_category_other |-> IF ~Falsy(pf.service_category_other)
                                 THEN pf.service_category_other ELSE None,
      severity_of_concern |-> pf.severity_of_concern,
      type_of_service_needed |-> JsonDumps(pf.type_of_service_needed),
      family_resources |-> JsonOrNone(pf.family_resources),
      referral_concern |-> JsonOrNone(pf.referral_concern),
      sex_at_birth |-> IF ~Falsy(pf.sex_at_birth) THEN pf.sex_at_birth ELSE None,
      race |-> JsonOrNone(pf.race),
      race_other |-> IF ~Falsy(pf.race_other) THEN pf.race_other ELSE None,
      ethnicity |-> JsonOrNone(pf.ethnicity),
      immediate_safety_concern |-> Lower(pf.immediate_safety_concern) \in TruthyWords,
      authorization_consent |-> TRUE,
      processed |-> FALSE, processed_at |-> NoTime, processed_by |-> NoId,
      created_at |-> t, expires_at |-> calculate_expires_at(t),
      deleted_at |-> NoTime ]

AuditLog_Swapped(user_id, action, resource_type, resource_id, district_id, student_uuid, old_status, new_status) ==
    [ id |-> NoId, user_id |-> user_id, action |-> action,
      resource_type |-> resource_type, resource_id |-> resource_id,
      district_id |-> district_id,
      details |-> [student_uuid |-> student_uuid, old_status |-> new_status,
                   new_status |-> old_status] ]

AuditLog(user_id, action, resource_type, resource_id, district_id, student_uuid, old_status, new_status) ==
    [ id |-> NoId, user_id |-> user_id, action |-> action,
      resource_type |-> resource_type, resource_id |-> resource_id,
      district_id |-> district_id,
      details |-> [student_uuid |-> student_uuid, old_status |-> old_status,
                   new_status |-> new_status] ]

Replaced_Deleted(rows, old, new) == rows \ {old}

\* db.commit() of a session in which the loaded row old was changed to new:
\* an UPDATE of that row
Replaced(rows, old, new) == (rows \ {old}) \cup {new}

\* the intake_queue rows of a dashboard record
QueueOf(d) == {q \in intake_queue : q.dashboard_record_id = d.id}

(***************************************************************************)
(* Sessions.                                                               *)
(***************************************************************************)
\* stands for "no form": the session of an idle worker, a response to
\* something else than a submission
NoForm == [BaseForm EXCEPT !.first_name = None, !.captcha_token = None]

\* a response: status code, the operation answered, and of the body the
\* handle, the status and the PHI values it carries; form is the submitted
\* form (of an update: the patch) the response answers, user the id in the
\* token of the request
NoResp == [code |-> 0, op |-> "none", handle |-> NoId, status |-> None, phi |-> {},
           form |-> NoForm, user |-> NoId]

Resp(code, op, handle, status, phi) ==
    [code |-> code, op |-> op, handle |-> handle, status |-> status, phi |-> phi,
     form |-> NoForm, user |-> NoId]

\* a worker with no request: get_db has closed the session.  record,
\* district_id, old_status and new_status are the locals an authenticated
\* handler keeps between its two commits.
IdleSess ==
    [ pc |-> "done", op |-> "none", form |-> NoForm, user |-> NoId,
      handle |-> NoId, txn_start |-> NoTime,
      record |-> NoId, district_id |-> NoId,
      old_status |-> None, new_status |-> None,
      new_districts |-> {}, new_schools |-> {}, new_dashboard |-> {},
      new_queue |-> {}, new_audit |-> {} ]

\* the handler of p ends: the response is sent and get_db closes the session,
\* which rolls back whatever was not committed
Finish(p, r) ==
    /\ sess' = [sess EXCEPT ![p] = IdleSess]
    /\ resp' = [r EXCEPT !.form = sess[p].form]

Free(p) == sess[p].pc = "done"

SessionClose_Persist(committed, pending) == committed \cup pending

\* Session.close() without commit: the pending rows of the transaction are
\* rolled back, the table keeps its committed rows
SessionClose(committed, pending) == committed

\* the request of p ends without commit (an HTTPException passes through, or
\* except Exception calls db.rollback()); get_db closes the session
Rollback(p) ==
    /\ districts' = SessionClose(districts, sess[p].new_districts)
    /\ schools' = SessionClose(schools, sess[p].new_schools)
    /\ dashboard_records' = SessionClose(dashboard_records, sess[p].new_dashboard)
    /\ intake_queue' = SessionClose(intake_queue, sess[p].new_queue)
    /\ audit_logs' = SessionClose(audit_logs, sess[p].new_audit)

\* rows of a table the session of p sees: committed rows and its own flushed rows
VisibleQueue(p) == intake_queue
VisibleDistricts(p) == districts \cup sess[p].new_districts

\* another session holds an uncommitted row with the unique code 'DEFAULT'
DefaultDistrictLocked(p) ==
    \E o \in Workers \ {p} : \E d \in sess[o].new_districts : d.code = "DEFAULT"

(***************************************************************************)
(* submit_intake_form                                                      *)
(***************************************************************************)
\* steps 1 to 9: parse, validate, CAPTCHA, consent, duplicate check
SubmitBegin(p, f, captcha) ==
    /\ Free(p)
    /\ nreq < env.cap
    /\ nreq' = nreq + 1
    /\ LET pf == Parsed(f)
           code == SubmitValidation(pf, captcha)
       IN  IF code # 200
           THEN /\ sess' = sess
                /\ resp' = [Resp(code, "submit", NoId, None, {}) EXCEPT !.form = f]
           ELSE IF check_duplicate_submission(VisibleQueue(p), pf.first_name,
                        pf.last_name, pf.dob, pf.parent_email, now)
                THEN /\ sess' = sess
                     /\ resp' = [Resp(409, "submit", NoId, None, {}) EXCEPT !.form = f]
                ELSE /\ sess' = [sess EXCEPT ![p] =
                            [IdleSess EXCEPT !.pc = "submit_resolve",
                                !.op = "submit", !.form = f, !.txn_start = now]]
                     /\ resp' = resp
    /\ UNCHANGED <<now, dbvars, files, seq, env, scope_resp, dup_case,
                   calc, vault, auth>>

\* steps 11 to 13 once the school row is known: uuid4, flush of the dashboard row
SubmitDashboard(p, school, new_districts, new_schools, seq1) ==
    LET s == sess[p]
        pf == Parsed(s.form)
        student_uuid == seq1.uuid
        row == DashboardRecord(seq1.dashboard, student_uuid, school, pf, s.txn_start)
    IN  /\ sess' = [sess EXCEPT ![p] =
                [s EXCEPT !.pc = "submit_files", !.handle = student_uuid,
                          !.new_districts = new_districts,
                          !.new_schools = new_schools,
                          !.new_dashboard = {row}]]
        /\ seq' = [seq1 EXCEPT !.uuid = @ + 1, !.dashboard = @ + 1]
        /\ resp' = resp

\* step 10 when no school matches: default district and a new school
SubmitCreateSchool(p) ==
    LET s == sess[p]
        school_name == Strip(Parsed(s.form).school)
        found == {d \in districts : d.code = "DEFAULT"}
    IN  IF found # {}
        THEN \E default_district \in found :
                LET school == School(seq.school, default_district.id, school_name)
                IN  SubmitDashboard(p, school, {}, {school},
                                    [seq EXCEPT !.school = @ + 1])
        ELSE LET default_district == District(seq.district, "Default District", "DEFAULT")
                 school == School(seq.school, default_district.id, school_name)
             IN  SubmitDashboard(p, school, {default_district}, {school},
                                 [seq EXCEPT !.district = @ + 1, !.school = @ + 1])

\* step 10: find the school by name or create it
SubmitResolve(p) ==
    /\ sess[p].pc = "submit_resolve"
    /\ LET s == sess[p]
           school_name == Strip(Parsed(s.form).school)
           matching == {sc \in schools : ILikeContains(sc.name, school_name)}
       IN  IF matching # {}
           THEN \E school \in matching : SubmitDashboard(p, school, {}, {}, seq)
           ELSE IF ~(\E d \in districts : d.code = "DEFAULT") /\ DefaultDistrictLocked(p)
                THEN \* the INSERT waits for the other transaction to end
                     /\ sess' = [sess EXCEPT ![p].pc = "submit_blocked"]
                     /\ seq' = [seq EXCEPT !.district = @ + 1]
                     /\ resp' = resp
                ELSE SubmitCreateSchool(p)
    /\ UNCHANGED <<now, dbvars, files, nreq, env, scope_resp, dup_case,
                   calc, vault, auth>>

\* the blocked INSERT of the default district resumes: unique violation
\* (handled by except Exception: rollback, 500) or success
SubmitUnblock(p) ==
    /\ sess[p].pc = "submit_blocked"
    /\ ~DefaultDistrictLocked(p)
    /\ IF \E d \in districts : d.code = "DEFAULT"
       THEN /\ Finish(p, Resp(500, "submit", NoId, None, {}))
            /\ Rollback(p)
            /\ seq' = seq
       ELSE LET default_district == District(seq.district - 1, "Default District", "DEFAULT")
                school == School(seq.school, default_district.id,
                                 Strip(Parsed(sess[p].form).school))
            IN  /\ SubmitDashboard(p, school, {default_district}, {school},
                                   [seq EXCEPT !.school = @ + 1])
                /\ UNCHANGED dbvars
    /\ UNCHANGED <<now, files, nreq, env, scope_resp, dup_case,
                   calc, vault, auth>>

\* step 14 (save_insurance_card for each side), steps 15 and 16 (the queue
\* row and the audit row are added to the session, not flushed)
SubmitFiles(p) ==
    /\ sess[p].pc = "submit_files"
    /\ LET s == sess[p]
           pf == Parsed(s.form)
           front == s.form.insurance_card_front
           back == s.form.insurance_card_back
           dash == CHOOSE r \in s.new_dashboard : TRUE
           front_card_path == IF front.present
                              THEN CardFileName(s.handle, "front", seq.file)
                              ELSE NoFileName
           files1 == IF front.present THEN files \cup {front_card_path} ELSE files
           nfile1 == IF front.present THEN seq.file + 1 ELSE seq.file
           back_card_path == IF back.present
                             THEN CardFileName(s.handle, "back", nfile1)
                             ELSE NoFileName
           files2 == IF back.present THEN files1 \cup {back_card_path} ELSE files1
           nfile2 == IF back.present THEN nfile1 + 1 ELSE nfile1
           queue_row == IntakeQueue(dash.id, pf, front_card_path, back_card_path,
                                    s.txn_start)
           audit_row == AuditLog(NoId, "create", "intake_queue", queue_row.id,
                                 dash.district_id, s.handle, None, None)
           rejected == Resp(400, "submit", NoId, None, {})
       IN  IF front.present /\ ~CardAccepted(front)
           THEN /\ Finish(p, rejected)
                /\ Rollback(p)
                /\ UNCHANGED <<files, seq>>
           ELSE IF back.present /\ ~CardAccepted(back)
                THEN /\ Finish(p, rejected)
                     /\ Rollback(p)
                     /\ files' = files1
                     /\ seq' = [seq EXCEPT !.file = nfile1]
                ELSE /\ sess' = [sess EXCEPT ![p] =
                            [s EXCEPT !.pc = "submit_commit",
                                      !.new_queue = {queue_row},
                                      !.new_audit = {audit_row}]]
                     /\ resp' = resp
                     /\ files' = files2
                     /\ seq' = [seq EXCEPT !.file = nfile2]
                     /\ UNCHANGED dbvars
    /\ UNCHANGED <<now, nreq, env, scope_resp, dup_case,
                   calc, vault, auth>>

FlushQueue_Dropped(rows, first_id) == {}

\* flush assigns the primary keys of the rows that were only added
FlushQueue(rows, first_id) == {[r EXCEPT !.id = first_id] : r \in rows}

FlushAudit_Dropped(rows, first_id) == {}

FlushAudit(rows, first_id) == {[r EXCEPT !.id = first_id] : r \in rows}

\* step 17: db.commit(), then the response
SubmitCommit(p) ==
    /\ sess[p].pc = "submit_commit"
    /\ LET s == sess[p]
       IN  /\ districts' = districts \cup s.new_districts
           /\ schools' = schools \cup s.new_schools
           /\ dashboard_records' = dashboard_records \cup s.new_dashboard
           /\ intake_queue' = intake_queue \cup FlushQueue(s.new_queue, seq.queue)
           /\ audit_logs' = audit_logs \cup FlushAudit(s.new_audit, seq.audit)
           /\ seq' = [seq EXCEPT !.queue = @ + 1, !.audit = @ + 1]
           /\ Finish(p, Resp(200, "submit", s.handle, "pending", {}))
    /\ UNCHANGED <<now, files, nreq, env, scope_resp, dup_case,
                   calc, vault, auth>>

SubmitPcs == {"submit_resolve", "submit_blocked", "submit_files", "submit_commit"}

\* any other exception (the database or the disk fails, the client goes
\* away): except Exception: db.rollback(), 500
SubmitAbort(p) ==
    /\ sess[p].pc \in SubmitPcs
    /\ Finish(p, Resp(500, "submit", NoId, None, {}))
    /\ Rollback(p)
    /\ UNCHANGED <<now, files, seq, nreq, env, scope_resp, dup_case,
                   calc, vault, auth>>

(***************************************************************************)
(* Authenticated intake handlers (routes.py).  get_intake_form_details     *)
(* commits once and is one action.  update_intake_form and                 *)
(* update_intake_status commit twice, the change first and the audit entry *)
(* after it: each is one action up to its first commit and one action for  *)
(* the audit commit and the response.  token is the user id of the bearer  *)
(* token, NoId a header that is not a bearer token.                        *)
(***************************************************************************)
Tokens == UserIds \cup {NoId}

\* get_user_from_token raises 401 unless the header carries a token
AuthCode(token) == IF token \in UserIds THEN 200 ELSE 401

AccessResp(code, op, token, identifier, status, phi) ==
    [Resp(code, op, identifier, status, phi) EXCEPT !.user = token]

\* the PHI text values of a queue row that the details response carries
PhiOf(q) ==
    { q.student_first_name, q.student_last_name, q.student_full_name,
      q.student_id, q.parent_name, q.parent_email, q.parent_phone,
      q.insurance_company, q.policyholder_name, q.relationship_to_student,
      q.member_id, q.group_number, q.service_category_other,
      q.sex_at_birth, q.race_other } \ {None}

\* the identifiers a client may send: the handles handed out, and one that
\* was never handed out
Identifiers == {d.student_uuid : d \in dashboard_records} \cup {NoId}

CommitAudit_Skipped(rows, audit_log, id) == rows

\* db.add(audit_log); db.commit(): the entry gets its primary key and is
\* committed
CommitAudit(rows, audit_log, id) == rows \cup {[audit_log EXCEPT !.id = id]}

\* get_intake_form_details
GetIntakeFormDetails(token, identifier) ==
    /\ nreq < env.cap
    /\ nreq' = nreq + 1
    /\ LET found == {d \in dashboard_records : d.student_uuid = identifier}
       IN  IF AuthCode(token) # 200
           THEN /\ resp' = AccessResp(AuthCode(token), "details", token, identifier, None, {})
                /\ UNCHANGED <<audit_logs, seq>>
           ELSE IF found = {}
           THEN /\ resp' = AccessResp(404, "details", token, identifier, None, {})
                /\ UNCHANGED <<audit_logs, seq>>
           ELSE LET user == get_user_from_token(token)
                    dashboard_record == CHOOSE d \in found : TRUE
                    rows == QueueOf(dashboard_record)
                IN  IF rows = {}
                    THEN /\ resp' = AccessResp(404, "details", token, identifier, None, {})
                         /\ UNCHANGED <<audit_logs, seq>>
                    ELSE LET intake == CHOOSE q \in rows : TRUE
                             audit_log == AuditLog(user.id, "view", "intake_form_details",
                                              dashboard_record.id,
                                              dashboard_record.district_id,
                                              identifier, None, None)
                         IN  /\ audit_logs' = CommitAudit(audit_logs, audit_log, seq.audit)
                             /\ seq' = [seq EXCEPT !.audit = @ + 1]
                             /\ resp' = AccessResp(200, "details", token, identifier,
                                            DetailsStatusMap(dashboard_record.service_status),
                                            PhiOf(intake))
    /\ UNCHANGED <<now, districts, schools, dashboard_records, intake_queue,
                   files, sess, env, scope_resp, dup_case,
                   calc, vault, auth>>

\* get_intake_form_details gets as far as the commit of its audit entry
DetailsReachesAudit(token, identifier) ==
    /\ AuthCode(token) = 200
    /\ \E d \in dashboard_records : d.student_uuid = identifier /\ QueueOf(d) # {}

\* db.commit() of the audit entry raises (the database fails): the
\* transaction is rolled back, except Exception answers 500
DetailsCommitFails(token, identifier) ==
    /\ nreq < env.cap
    /\ DetailsReachesAudit(token, identifier)
    /\ nreq' = nreq + 1
    /\ resp' = AccessResp(500, "details", token, identifier, None, {})
    /\ UNCHANGED <<now, dbvars, files, seq, sess, env, scope_resp, dup_case,
                   calc, vault, auth>>

\* the file names a client may ask for: the names stored in queue rows, the
\* names in UPLOAD_DIR, and one that names no intake
FileNames ==
    {q.insurance_card_front_url : q \in intake_queue}
        \cup {q.insurance_card_back_url : q \in intake_queue}
        \cup files \cup {NoFileName}

\* the image FileResponse sends
CardImage(filename) == "image of " \o filename[2]

\* the stored name serve_insurance_card compares the requested one with
StoredName(intake, filename) ==
    IF filename[2] = "front" THEN intake.insurance_card_front_url
    ELSE intake.insurance_card_back_url

\* serve_insurance_card gets as far as the commit of its audit entry
ServeReachesAudit(token, filename) ==
    /\ AuthCode(token) = 200
    /\ \E d \in dashboard_records :
          /\ d.student_uuid = filename[1]
          /\ QueueOf(d) # {}
          /\ LET stored_filename == StoredName(CHOOSE q \in QueueOf(d) : TRUE, filename)
             IN  /\ stored_filename # NoFileName
                 /\ stored_filename = filename
    /\ filename \in files

\* serve_insurance_card; token is the bearer token of the header or the
\* query parameter
ServeInsuranceCard(token, filename) ==
    /\ nreq < env.cap
    /\ nreq' = nreq + 1
    /\ IF AuthCode(token) # 200
       THEN /\ resp' = AccessResp(AuthCode(token), "serve", token, filename[1], None, {})
            /\ UNCHANGED <<audit_logs, seq>>
       ELSE IF ~ServeReachesAudit(token, filename)
       THEN /\ resp' = AccessResp(404, "serve", token, filename[1], None, {})
            /\ UNCHANGED <<audit_logs, seq>>
       ELSE LET user == get_user_from_token(token)
                dashboard_record == CHOOSE d \in dashboard_records :
                                        d.student_uuid = filename[1]
                audit_log == AuditLog(user.id, "view_file", "insurance_card",
                                 dashboard_record.id, dashboard_record.district_id,
                                 filename[1], None, None)
            IN  /\ audit_logs' = CommitAudit(audit_logs, audit_log, seq.audit)
                /\ seq' = [seq EXCEPT !.audit = @ + 1]
                /\ resp' = AccessResp(200, "serve", token, filename[1], None,
                               {CardImage(filename)})
    /\ UNCHANGED <<now, districts, schools, dashboard_records, intake_queue,
                   files, sess, env, scope_resp, dup_case,
                   calc, vault, auth>>

\* db.commit() of the audit entry of serve_insurance_card raises
ServeCommitFails(token, filename) ==
    /\ nreq < env.cap
    /\ ServeReachesAudit(token, filename)
    /\ nreq' = nreq + 1
    /\ resp' = AccessResp(500, "serve", token, filename[1], None, {})
    /\ UNCHANGED <<now, dbvars, files, seq, sess, env, scope_resp, dup_case,
                   calc, vault, auth>>

\* check_intake_status: public, answers the status of a handle and writes a
\* 'view' audit entry
CheckIntakeStatus(identifier) ==
    /\ nreq < env.cap
    /\ nreq' = nreq + 1
    /\ LET found == {d \in dashboard_records : d.student_uuid = identifier}
       IN  IF found = {}
           THEN /\ resp' = Resp(404, "check", identifier, None, {})
                /\ UNCHANGED <<audit_logs, seq>>
           ELSE LET dashboard_record == CHOOSE d \in found : TRUE
                    response_status == StatusMap(dashboard_record.service_status)
                    audit_log == AuditLog(NoId, "view", "intake_status",
                                     dashboard_record.id, dashboard_record.district_id,
                                     identifier, None, None)
                IN  /\ audit_logs' = audit_logs \cup {[audit_log EXCEPT !.id = seq.audit]}
                    /\ seq' = [seq EXCEPT !.audit = @ + 1]
                    /\ resp' = Resp(200, "check", identifier, response_status, {})
    /\ UNCHANGED <<now, districts, schools, dashboard_records, intake_queue,
                   files, sess, env, scope_resp, dup_case,
                   calc, vault, auth>>

\* An update payload has the shape of the submitted form; a key that is not
\* sent is None (NoGrade, NoDateStr, the empty list, NoFile).
EmptyForm ==
    [ first_name |-> None, last_name |-> None, full_name |-> None,
      grade |-> NoGrade, school |-> None, dob |-> NoDateStr, student_id |-> None,
      parent_name |-> None, parent_email |-> None, parent_phone |-> None,
      service_request_type |-> None,
      has_insurance |-> None, insurance_company |-> None,
      policyholder_name |-> None, relationship |-> None,
      member_id |-> None, group_number |-> None,
      service_category |-> <<>>, service_category_other |-> None,
      severity_of_concern |-> None, type_of_service_needed |-> <<>>,
      family_resources |-> <<>>, referral_concern |-> <<>>,
      sex_at_birth |-> None, race |-> <<>>, race_other |-> None,
      ethnicity |-> <<>>,
      immediate_safety_concern |-> None, authorization_consent |-> None,
      captcha_token |-> None,
      insurance_card_front |-> NoFile, insurance_card_back |-> NoFile ]

UpdatePayloads ==
    { EmptyForm,
      [EmptyForm EXCEPT !.first_name = "Ann", !.last_name = "Ray",
                        !.grade = GradeStr(7, "th"), !.school = "Oak Hill",
                        !.dob = DateStr(2011, 5, 9, TRUE, TRUE, "iso")],
      [EmptyForm EXCEPT !.first_name = "Ann"],
      [EmptyForm EXCEPT !.parent_name = "Sam Lee", !.parent_email = "sam@example.com",
                        !.parent_phone = "555-0199"],
      [EmptyForm EXCEPT !.parent_name = "Sam Lee", !.parent_email = "sam",
                        !.parent_phone = "555-0199"],
      [EmptyForm EXCEPT !.has_insurance = "yes", !.insurance_company = "Acme Health",
                        !.policyholder_name = "Pat Lee", !.member_id = "M-77",
                        !.insurance_card_front = GoodFile],
      [EmptyForm EXCEPT !.insurance_card_front = BadFile],
      [EmptyForm EXCEPT !.service_request_type = "opt_in_future",
                        !.service_category = <<"Counseling">>,
                        !.severity_of_concern = "severe",
                        !.type_of_service_needed = <<"Group">>,
                        !.sex_at_birth = "F", !.race = <<"Asian">>],
      [EmptyForm EXCEPT !.immediate_safety_concern = "yes",
                        !.authorization_consent = "false"] }

\* re.match of the e-mail pattern of update_intake_form, on the e-mail
\* strings of the model's universe
EmailPatternMatches(s) == s \in {"ana@example.com", "Ana@Example.com",
                                 "bo@example.com", "sam@example.com"}

\* step 6 of update_intake_form: the sections the payload touches
update_student_info(upd) ==
    \/ upd.first_name # None \/ upd.last_name # None \/ upd.full_name # None
    \/ upd.grade # NoGrade \/ upd.school # None \/ upd.dob # NoDateStr
    \/ upd.student_id # None
update_parent_info(upd) ==
    upd.parent_name # None \/ upd.parent_email # None \/ upd.parent_phone # None
update_insurance(upd) ==
    \/ upd.has_insurance # None \/ upd.insurance_company # None
    \/ upd.policyholder_name # None \/ upd.relationship # None
    \/ upd.member_id # None \/ upd.group_number # None
    \/ upd.insurance_card_front.present \/ upd.insurance_card_back.present
update_service_needs(upd) ==
    \/ upd.service_category # <<>> \/ upd.service_category_other # None
    \/ upd.severity_of_concern # None \/ upd.type_of_service_needed # <<>>
    \/ upd.family_resources # <<>> \/ upd.referral_concern # <<>>
update_demographics(upd) ==
    \/ upd.sex_at_birth # None \/ upd.race # <<>> \/ upd.race_other # None
    \/ upd.ethnicity # <<>>

NoSchool == School(NoId, NoId, None)

\* School.name.ilike(f"%{student_school.strip()}%").first(): the rows it may return
SchoolChoices(upd) ==
    LET student_school == parse_nested_field(upd.school)
        matching == IF Falsy(student_school) THEN {}
                    ELSE {sc \in schools : ILikeContains(sc.name, Strip(student_school))}
    IN  IF matching = {} THEN {NoSchool} ELSE matching

\* The steps of update_intake_form work on st: the status code so far
\* (200 while no step has raised), the two rows as the session holds them,
\* the upload directory and the file counter.

\* "Update school if changed": the found school gives the record both ids
SetSchool_IdOnly(dashboard_record, school) ==
    IF school = NoSchool THEN dashboard_record
    ELSE [dashboard_record EXCEPT !.school_id = school.id]

SetSchool(dashboard_record, school) ==
    IF school = NoSchool THEN dashboard_record
    ELSE [dashboard_record EXCEPT !.school_id = school.id,
                                  !.district_id = school.district_id]

\* step 7: student information
UpdateStudent(st, upd, school) ==
    IF st.code # 200 \/ ~update_student_info(upd) THEN st
    ELSE LET student_first_name == parse_nested_field(upd.first_name)
             student_last_name == parse_nested_field(upd.last_name)
             student_grade == upd.grade
             student_school == parse_nested_field(upd.school)
             student_dob == upd.dob
             student_id == parse_nested_field(upd.student_id)
             full == student_first_name \o " " \o student_last_name
         IN  IF \/ Falsy(student_first_name) \/ Falsy(student_last_name)
                \/ FalsyGrade(student_grade) \/ Falsy(student_school)
                \/ FalsyDateStr(student_dob)
             THEN [st EXCEPT !.code = 422]
             ELSE IF ~StrptimeOk(student_dob) THEN [st EXCEPT !.code = 422]
             ELSE [st EXCEPT
                     !.q = [@ EXCEPT !.student_first_name = student_first_name,
                                     !.student_last_name = student_last_name,
                                     !.student_full_name = full,
                                     !.student_grade = student_grade,
                                     !.student_id = IF ~Falsy(student_id)
                                                    THEN student_id ELSE None,
                                     !.date_of_birth = Strptime(student_dob)],
                     !.d = SetSchool([@ EXCEPT !.student_name = full,
                                               !.grade_band =
                                                   calculate_grade_band(student_grade)],
                                     school)]

\* step 8: parent / guardian contact
UpdateParent(st, upd) ==
    IF st.code # 200 \/ ~update_parent_info(upd) THEN st
    ELSE LET parent_name == parse_nested_field(upd.parent_name)
             parent_email == parse_nested_field(upd.parent_email)
             parent_phone == parse_nested_field(upd.parent_phone)
         IN  IF Falsy(parent_name) \/ Falsy(parent_email) \/ Falsy(parent_phone)
             THEN [st EXCEPT !.code = 422]
             ELSE IF ~EmailPatternMatches(parent_email) THEN [st EXCEPT !.code = 422]
             ELSE [st EXCEPT !.q = [@ EXCEPT !.parent_name = parent_name,
                                             !.parent_email = parent_email,
                                             !.parent_phone = parent_phone]]

\* step 9: service request type
UpdateRequestType(st, upd) ==
    LET service_request_type == parse_nested_field(upd.service_request_type)
    IN  IF st.code # 200 \/ Falsy(service_request_type) THEN st
        ELSE IF service_request_type \notin AllowedRequestTypes
             THEN [st EXCEPT !.code = 422]
             ELSE [st EXCEPT !.d.opt_in_type =
                        IF service_request_type = "start_now"
                        THEN "immediate_service" ELSE "future_eligibility"]

\* step 10: insurance information
UpdateInsurance(st, upd) ==
    LET has_insurance_str == parse_nested_field(upd.has_insurance)
    IN  IF st.code # 200 \/ ~update_insurance(upd) \/ Falsy(has_insurance_str) THEN st
        ELSE IF Lower(has_insurance_str) \in TruthyWords
        THEN LET insurance_company == parse_nested_field(upd.insurance_company)
                 policyholder_name == parse_nested_field(upd.policyholder_name)
                 relationship == parse_nested_field(upd.relationship)
                 member_id == parse_nested_field(upd.member_id)
                 group_number == parse_nested_field(upd.group_number)
             IN  IF Falsy(insurance_company) \/ Falsy(policyholder_name) \/ Falsy(member_id)
                 THEN [st EXCEPT !.code = 422]
                 ELSE [st EXCEPT
                         !.d.insurance_present = TRUE,
                         !.q = [@ EXCEPT
                                  !.insurance_company = insurance_company,
                                  !.policyholder_name = policyholder_name,
                                  !.relationship_to_student =
                                      IF ~Falsy(relationship) THEN relationship ELSE None,
                                  !.member_id = member_id,
                                  !.group_number =
                                      IF ~Falsy(group_number) THEN group_number ELSE None]]
        ELSE [st EXCEPT
                !.d.insurance_present = FALSE,
                !.q = [@ EXCEPT !.insurance_company = None, !.policyholder_name = None,
                                !.relationship_to_student = None, !.member_id = None,
                                !.group_number = None]]

\* step 11 for one side: the old file is unlinked, then save_insurance_card
UpdateCard(st, file, student_uuid, side) ==
    IF st.code # 200 \/ ~file.present THEN st
    ELSE LET old == IF side = "front" THEN st.q.insurance_card_front_url
                    ELSE st.q.insurance_card_back_url
             unlinked == IF old # NoFileName THEN st.files \ {old} ELSE st.files
             path == CardFileName(student_uuid, side, st.nfile)
         IN  IF ~CardAccepted(file)
             THEN [st EXCEPT !.code = 400, !.files = unlinked]
             ELSE [st EXCEPT
                     !.files = unlinked \cup {path},
                     !.nfile = @ + 1,
                     !.q = IF side = "front"
                           THEN [@ EXCEPT !.insurance_card_front_url = path]
                           ELSE [@ EXCEPT !.insurance_card_back_url = path]]

\* step 12: service needs
UpdateServiceNeeds(st, upd) ==
    IF st.code # 200 \/ ~update_service_needs(upd) THEN st
    ELSE LET service_category == parse_array_field(upd.service_category)
             service_category_other == parse_nested_field(upd.service_category_other)
             severity_of_concern == parse_nested_field(upd.severity_of_concern)
             type_of_service_needed == parse_array_field(upd.type_of_service_needed)
             family_resources == parse_array_field(upd.family_resources)
             referral_concern == parse_array_field(upd.referral_concern)
         IN  IF service_category = <<>> THEN [st EXCEPT !.code = 422]
             ELSE IF Falsy(severity_of_concern) THEN [st EXCEPT !.code = 422]
             ELSE IF severity_of_concern \notin AllowedSeverity
                  THEN [st EXCEPT !.code = 422]
             ELSE IF type_of_service_needed = <<>> THEN [st EXCEPT !.code = 422]
             ELSE [st EXCEPT !.q = [@ EXCEPT
                     !.service_category = JsonDumps(service_category),
                     !.service_category_other =
                         IF ~Falsy(service_category_other)
                         THEN service_category_other ELSE None,
                     !.severity_of_concern = severity_of_concern,
                     !.type_of_service_needed = JsonDumps(type_of_service_needed),
                     !.family_resources = JsonOrNone(family_resources),
                     !.referral_concern = JsonOrNone(referral_concern)]]

UpdateDemographics_Always(st, upd) ==
    IF st.code # 200 THEN st
    ELSE [st EXCEPT !.q = [@ EXCEPT
             !.sex_at_birth = parse_nested_field(upd.sex_at_birth),
             !.race = JsonOrNone(parse_array_field(upd.race)),
             !.race_other = parse_nested_field(upd.race_other),
             !.ethnicity = JsonOrNone(parse_array_field(upd.ethnicity))]]

\* step 13: demographics
UpdateDemographics(st, upd) ==
    IF st.code # 200 \/ ~update_demographics(upd) THEN st
    ELSE LET sex_at_birth == parse_nested_field(upd.sex_at_birth)
             race == parse_array_field(upd.race)
             race_other == parse_nested_field(upd.race_other)
             ethnicity == parse_array_field(upd.ethnicity)
         IN  [st EXCEPT !.q = [@ EXCEPT
                 !.sex_at_birth = IF ~Falsy(sex_at_birth) THEN sex_at_birth ELSE None,
                 !.race = JsonOrNone(race),
                 !.race_other = IF ~Falsy(race_other) THEN race_other ELSE None,
                 !.ethnicity = JsonOrNone(ethnicity)]]

\* step 14: safety concern and consent
UpdateSafety(st, upd) ==
    LET safety_concern_str == parse_nested_field(upd.immediate_safety_concern)
        authorization_consent_str == parse_nested_field(upd.authorization_consent)
        st1 == IF st.code # 200 \/ Falsy(safety_concern_str) THEN st
               ELSE [st EXCEPT !.q.immediate_safety_concern =
                                   Lower(safety_concern_str) \in TruthyWords]
    IN  IF st1.code # 200 \/ Falsy(authorization_consent_str) THEN st1
        ELSE [st1 EXCEPT !.q.authorization_consent =
                             (Lower(authorization_consent_str) = "true")]

\* steps 7 to 15 of update_intake_form in their order
ApplyUpdate(dashboard_record, intake, upd, school, student_uuid, t) ==
    LET st0 == [code |-> 200, d |-> dashboard_record, q |-> intake,
                files |-> files, nfile |-> seq.file]
        st1 == UpdateStudent(st0, upd, school)
        st2 == UpdateParent(st1, upd)
        st3 == UpdateRequestType(st2, upd)
        st4 == UpdateInsurance(st3, upd)
        st5 == UpdateCard(st4, upd.insurance_card_front, student_uuid, "front")
        st6 == UpdateCard(st5, upd.insurance_card_back, student_uuid, "back")
        st7 == UpdateServiceNeeds(st6, upd)
        st8 == UpdateDemographics(st7, upd)
        st9 == UpdateSafety(st8, upd)
    IN  IF st9.code # 200 THEN st9 ELSE [st9 EXCEPT !.d.updated_at = t]

\* what a worker keeps between the first commit of an update handler and
\* its audit commit
AuditPending(pc, op, token, identifier, dashboard_record, old_status, new_status) ==
    [IdleSess EXCEPT !.pc = pc, !.op = op, !.user = token, !.handle = identifier,
                     !.txn_start = now,
                     !.record = dashboard_record.id,
                     !.district_id = dashboard_record.district_id,
                     !.old_status = old_status, !.new_status = new_status]

\* update_intake_form, steps 1 to 17: up to db.commit() of the changes
UpdateIntakeForm(p, token, identifier, upd) ==
    /\ Free(p)
    /\ nreq < env.cap
    /\ nreq' = nreq + 1
    /\ LET found == {d \in dashboard_records : d.student_uuid = identifier}
           unchanged == UNCHANGED <<dashboard_records, intake_queue, files, seq, sess>>
       IN  IF AuthCode(token) # 200
           THEN /\ resp' = [AccessResp(AuthCode(token), "update", token, identifier,
                                    None, {}) EXCEPT !.form = upd]
                /\ unchanged
           ELSE IF found = {}
           THEN /\ resp' = [AccessResp(404, "update", token, identifier,
                                    None, {}) EXCEPT !.form = upd]
                /\ unchanged
           ELSE LET dashboard_record == CHOOSE d \in found : TRUE
                    rows == QueueOf(dashboard_record)
                IN  IF rows = {}
                    THEN /\ resp' = [AccessResp(404, "update", token, identifier,
                                    None, {}) EXCEPT !.form = upd]
                         /\ unchanged
                    ELSE \E school \in SchoolChoices(upd) :
                         LET intake == CHOOSE q \in rows : TRUE
                             st == ApplyUpdate(dashboard_record, intake, upd, school,
                                               identifier, now)
                         IN  IF st.code # 200
                             THEN \* raised before the commit: the session is
                                  \* closed, the directory keeps what was done
                                  /\ resp' = [AccessResp(st.code, "update", token,
                                                 identifier, None, {})
                                              EXCEPT !.form = upd]
                                  /\ files' = st.files
                                  /\ seq' = [seq EXCEPT !.file = st.nfile]
                                  /\ UNCHANGED <<dashboard_records, intake_queue, sess>>
                             ELSE /\ dashboard_records' =
                                        Replaced(dashboard_records, dashboard_record, st.d)
                                  /\ intake_queue' = Replaced(intake_queue, intake, st.q)
                                  /\ files' = st.files
                                  /\ seq' = [seq EXCEPT !.file = st.nfile]
                                  /\ sess' = [sess EXCEPT ![p] =
                                        [AuditPending("update_audit", "update", token,
                                            identifier, st.d, None, None)
                                         EXCEPT !.form = upd]]
                                  /\ resp' = resp
    /\ UNCHANGED <<now, districts, schools, audit_logs, env, scope_resp, dup_case,
                   calc, vault, auth>>

\* update_intake_form, steps 18 to 20: the response is built, the 'update'
\* audit entry is added and committed
UpdateFormAudit(p) ==
    /\ sess[p].pc = "update_audit"
    /\ LET s == sess[p]
           user == get_user_from_token(s.user)
           audit_log == AuditLog(user.id, "update", "intake_form", s.record,
                            s.district_id, s.handle, None, None)
           shown == {d \in dashboard_records : d.id = s.record}
       IN  /\ audit_logs' = audit_logs \cup {[audit_log EXCEPT !.id = seq.audit]}
           /\ seq' = [seq EXCEPT !.audit = @ + 1]
           /\ \E d \in shown :
                 Finish(p, AccessResp(200, "update", s.user, s.handle,
                               DetailsStatusMap(d.service_status),
                               UNION {PhiOf(q) : q \in QueueOf(d)}))
    /\ UNCHANGED <<now, districts, schools, dashboard_records, intake_queue,
                   files, nreq, env, scope_resp, dup_case,
                   calc, vault, auth>>

\* the status values a client may send
StatusValues == {"pending", "processed", "active", "submitted"}

mark_processed_Again(intake, user_id, t) ==
    [intake EXCEPT !.processed = TRUE, !.processed_at = t, !.processed_by = user_id]

\* step 6 of update_intake_status when the new status is 'processed': the
\* queue row is stamped unless it is processed already
mark_processed(intake, user_id, t) ==
    IF ~intake.processed
    THEN [intake EXCEPT !.processed = TRUE, !.processed_at = t, !.processed_by = user_id]
    ELSE intake

StampWanted_Never(changed, new_status) == FALSE

\* step 6: the queue row is looked at when the status changes to 'processed'
StampWanted(changed, new_status) == changed /\ new_status = "processed"

\* update_intake_status, steps 1 to 6: up to db.commit() of the status
UpdateIntakeStatus(p, token, identifier, new_status) ==
    /\ Free(p)
    /\ nreq < env.cap
    /\ nreq' = nreq + 1
    /\ LET found == {d \in dashboard_records : d.student_uuid = identifier}
           unchanged == UNCHANGED <<dashboard_records, intake_queue, sess>>
       IN  IF AuthCode(token) # 200
           THEN /\ resp' = AccessResp(AuthCode(token), "status", token, identifier, None, {})
                /\ unchanged
           ELSE IF found = {}
           THEN /\ resp' = AccessResp(404, "status", token, identifier, None, {})
                /\ unchanged
           ELSE IF new_status \notin AllowedStatuses
           THEN /\ resp' = AccessResp(422, "status", token, identifier, None, {})
                /\ unchanged
           ELSE LET user == get_user_from_token(token)
                    dashboard_record == CHOOSE d \in found : TRUE
                    old_status == dashboard_record.service_status
                    changed == old_status # new_status
                    new_record == IF changed
                                  THEN [dashboard_record EXCEPT
                                           !.service_status = new_status,
                                           !.updated_at = now]
                                  ELSE dashboard_record
                    mark(q) == IF StampWanted(changed, new_status)
                               THEN mark_processed(q, user.id, now)
                               ELSE q
                IN  /\ dashboard_records' =
                           Replaced(dashboard_records, dashboard_record, new_record)
                    /\ intake_queue' =
                           (intake_queue \ QueueOf(dashboard_record))
                           \cup {mark(q) : q \in QueueOf(dashboard_record)}
                    /\ sess' = [sess EXCEPT ![p] =
                           AuditPending("status_audit", "status", token, identifier,
                               new_record, old_status, new_status)]
                    /\ resp' = resp
    /\ UNCHANGED <<now, districts, schools, audit_logs, files, seq, env,
                   scope_resp, dup_case,
                   calc, vault, auth>>

\* update_intake_status in a session that runs next to others, steps 1 to 6
\* before db.commit(): the session loads the record and its queue row and
\* changes its copies; new_dashboard and new_queue hold the changed copies
UpdateStatusLoad(p, token, identifier, new_status) ==
    /\ Free(p)
    /\ nreq < env.cap
    /\ nreq' = nreq + 1
    /\ LET found == {d \in dashboard_records : d.student_uuid = identifier}
       IN  IF AuthCode(token) # 200
           THEN /\ resp' = AccessResp(AuthCode(token), "status", token, identifier, None, {})
                /\ sess' = sess
           ELSE IF found = {}
           THEN /\ resp' = AccessResp(404, "status", token, identifier, None, {})
                /\ sess' = sess
           ELSE IF new_status \notin AllowedStatuses
           THEN /\ resp' = AccessResp(422, "status", token, identifier, None, {})
                /\ sess' = sess
           ELSE LET user == get_user_from_token(token)
                    dashboard_record == CHOOSE d \in found : TRUE
                    old_status == dashboard_record.service_status
                    changed == old_status # new_status
                    new_record == [dashboard_record EXCEPT
                                      !.service_status = new_status,
                                      !.updated_at = now]
                    stamped == IF StampWanted(changed, new_status)
                               THEN {mark_processed(q, user.id, now) :
                                        q \in {r \in QueueOf(dashboard_record) :
                                                  ~r.processed}}
                               ELSE {}
                IN  /\ sess' = [sess EXCEPT ![p] =
                           [AuditPending("status_commit", "status", token, identifier,
                                dashboard_record, old_status, new_status)
                            EXCEPT !.new_dashboard = IF changed THEN {new_record} ELSE {},
                                   !.new_queue = stamped]]
                    /\ resp' = resp
    /\ UNCHANGED <<now, dbvars, files, seq, env, scope_resp, dup_case, calc, vault, auth>>

\* db.commit() of that session: one UPDATE per changed row, by primary key,
\* of the columns the session changed
UpdateStatusCommit(p) ==
    /\ sess[p].pc = "status_commit"
    /\ LET s == sess[p]
           UpdatedRecord(d) ==
               IF \E x \in s.new_dashboard : x.id = d.id
               THEN LET x == CHOOSE x \in s.new_dashboard : x.id = d.id
                    IN  [d EXCEPT !.service_status = x.service_status,
                                  !.updated_at = x.updated_at]
               ELSE d
           UpdatedQueue(q) ==
               IF \E x \in s.new_queue : x.id = q.id
               THEN LET x == CHOOSE x \in s.new_queue : x.id = q.id
                    IN  [q EXCEPT !.processed = x.processed,
                                  !.processed_at = x.processed_at,
                                  !.processed_by = x.processed_by]
               ELSE q
       IN  /\ dashboard_records' = {UpdatedRecord(d) : d \in dashboard_records}
           /\ intake_queue' = {UpdatedQueue(q) : q \in intake_queue}
           /\ sess' = [sess EXCEPT ![p] = [s EXCEPT !.pc = "status_audit",
                                                    !.new_dashboard = {},
                                                    !.new_queue = {}]]
    /\ resp' = resp
    /\ UNCHANGED <<now, districts, schools, audit_logs, files, seq, nreq, env,
                   scope_resp, dup_case, calc, vault, auth>>

\* update_intake_status, steps 7 and 8: the 'update_status' audit entry is
\* added and committed, then the response
UpdateStatusAudit(p) ==
    /\ sess[p].pc = "status_audit"
    /\ LET s == sess[p]
           user == get_user_from_token(s.user)
           audit_log == AuditLog(user.id, "update_status", "intake_form", s.record,
                            s.district_id, s.handle, s.old_status, s.new_status)
       IN  /\ audit_logs' = audit_logs \cup {[audit_log EXCEPT !.id = seq.audit]}
           /\ seq' = [seq EXCEPT !.audit = @ + 1]
           /\ Finish(p, AccessResp(200, "status", s.user, s.handle, s.new_status, {}))
    /\ UNCHANGED <<now, districts, schools, dashboard_records, intake_queue,
                   files, nreq, env, scope_resp, dup_case,
                   calc, vault, auth>>

AuditPcs == {"update_audit", "status_audit"}

\* an exception after the first commit (db.refresh or the second db.commit
\* fails, the connection is lost): except Exception answers 500, get_db
\* closes the session, the audit entry is not written
UpdateAbort(p) ==
    /\ sess[p].pc \in AuditPcs
    /\ Finish(p, AccessResp(500, sess[p].op, sess[p].user, sess[p].handle, None, {}))
    /\ UNCHANGED <<now, dbvars, files, seq, nreq, env, scope_resp, dup_case,
                   calc, vault, auth>>

(***************************************************************************)
(* Dashboard endpoints (dashboard_routes.py).  They read only; each is     *)
(* one action that leaves its response in scope_resp.                      *)
(***************************************************************************)
\* a query parameter that is not sent (Query(None))
NoParam == -1
\* Python truth of an Optional[int] parameter: None and 0 are false
ParamTruthy(v) == v # NoParam /\ v # 0

\* date comparison
DateLE(a, b) ==
    \/ a.y < b.y
    \/ a.y = b.y /\ a.m < b.m
    \/ a.y = b.y /\ a.m = b.m /\ a.d <= b.d

\* parse_date_param: [code, date]; no parameter gives no date
parse_date_param(value) ==
    IF FalsyDateStr(value) THEN [code |-> 200, date |-> NoDate]
    ELSE IF StrptimeOk(value) THEN [code |-> 200, date |-> Strptime(value)]
    ELSE [code |-> 400, date |-> NoDate]

\* subtract_months
subtract_months(base_date, months) ==
    LET m0 == base_date.m - months
        wraps == IF m0 > 0 THEN 0 ELSE ((0 - m0) \div 12) + 1
    IN  [y |-> base_date.y - wraps, m |-> m0 + 12 * wraps,
         d |-> IF base_date.d < 28 THEN base_date.d ELSE 28]

\* get_date_range
get_date_range(start_date, end_date, t) ==
    LET today == DateOf(t)
    IN  IF start_date = NoDate /\ end_date = NoDate
        THEN [start |-> subtract_months(today, 6), end |-> today]
        ELSE IF start_date # NoDate /\ end_date = NoDate
        THEN [start |-> start_date, end |-> today]
        ELSE IF end_date # NoDate /\ start_date = NoDate
        THEN [start |-> subtract_months(end_date, 6), end |-> end_date]
        ELSE [start |-> start_date, end |-> end_date]

Between(dt, range) == DateLE(range.start, dt) /\ DateLE(dt, range.end)

\* the period names the endpoints accept, after the short names are mapped
NormalPeriod(period) ==
    CASE period = "week" -> "weekly" [] period = "month" -> "monthly"
      [] period = "quarter" -> "quarterly" [] period = "year" -> "yearly"
      [] OTHER -> period
PeriodOk(period) == NormalPeriod(period) \in {"weekly", "monthly", "quarterly", "yearly"}

\* the date constructor and date arithmetic raise ValueError / OverflowError
\* outside date.min .. date.max (years 1 to 9999)
DateError == [y |-> -1, m |-> 0, d |-> 0]

\* date(year, month, day)
MakeDate(y, m, d) ==
    IF y \in 1..9999 /\ m \in 1..12 /\ d \in 1..DaysIn(y, m)
    THEN [y |-> y, m |-> m, d |-> d] ELSE DateError

RECURSIVE DaysBeforeMonth(_, _)
DaysBeforeMonth(y, m) == IF m <= 1 THEN 0 ELSE DaysIn(y, m - 1) + DaysBeforeMonth(y, m - 1)

\* date.toordinal(): 0001-01-01 is day 1
ToOrdinal(value) ==
    LET y1 == value.y - 1
    IN  y1 * 365 + (y1 \div 4) - (y1 \div 100) + (y1 \div 400)
            + DaysBeforeMonth(value.y, value.m) + value.d

\* date.weekday(): Monday is 0
Weekday(value) == (ToOrdinal(value) + 6) % 7

\* value + timedelta(days), for a step of at most one month either way
DatePlusDays(value, days) ==
    LET d1 == value.d + days
        prev == IF value.m = 1 THEN [y |-> value.y - 1, m |-> 12]
                ELSE [y |-> value.y, m |-> value.m - 1]
        next == IF value.m = 12 THEN [y |-> value.y + 1, m |-> 1]
                ELSE [y |-> value.y, m |-> value.m + 1]
    IN  IF d1 < 1 THEN MakeDate(prev.y, prev.m, d1 + DaysIn(prev.y, prev.m))
        ELSE IF d1 > DaysIn(value.y, value.m)
        THEN MakeDate(next.y, next.m, d1 - DaysIn(value.y, value.m))
        ELSE MakeDate(value.y, value.m, d1)

\* normalize_period_start
normalize_period_start(value, period) ==
    LET p == NormalPeriod(period)
    IN  CASE p = "weekly" -> DatePlusDays(value, 0 - Weekday(value))
          [] p = "monthly" -> MakeDate(value.y, value.m, 1)
          [] p = "quarterly" -> MakeDate(value.y, ((value.m - 1) \div 3) * 3 + 1, 1)
          [] p = "yearly" -> MakeDate(value.y, 1, 1)
          [] OTHER -> value

\* next_period
next_period(value, period) ==
    LET p == NormalPeriod(period)
    IN  CASE p = "weekly" -> DatePlusDays(value, 7)
          [] p = "monthly" -> MakeDate(value.y + (IF value.m = 12 THEN 1 ELSE 0),
                                       IF value.m = 12 THEN 1 ELSE value.m + 1, 1)
          [] p = "quarterly" -> IF value.m + 3 > 12
                                THEN MakeDate(value.y + 1, value.m + 3 - 12, 1)
                                ELSE MakeDate(value.y, value.m + 3, 1)
          [] p = "yearly" -> MakeDate(value.y + 1, 1, 1)
          [] OTHER -> value

\* strftime("%b")
MonthAbbr ==
    <<"Jan", "Feb", "Mar", "Apr", "May", "Jun", "Jul", "Aug", "Sep", "Oct", "Nov", "Dec">>

\* the label appended for one bucket
PeriodLabel(current, period) ==
    CASE period = "weekly" -> <<"%Y-%m-%d", current.y, current.m, current.d>>
      [] period = "monthly" -> <<"%b", MonthAbbr[current.m]>>
      [] period = "quarterly" -> <<"Q", (current.m - 1) \div 3 + 1, current.y>>
      [] period = "yearly" -> <<"str", current.y>>
      [] OTHER -> <<"%Y-%m-%d", current.y, current.m, current.d>>

\* what a call of build_period_labels gives: the two lists, or an exception
PeriodResult(labels, buckets) == [raised |-> FALSE, labels |-> labels, buckets |-> buckets]
PeriodRaised == [raised |-> TRUE, labels |-> <<>>, buckets |-> <<>>]

\* while current <= end_norm: append, current = next_period(current, period)
RECURSIVE PeriodLoop(_, _, _, _, _)
PeriodLoop(current, end_norm, period, labels, buckets) ==
    IF current = DateError \/ end_norm = DateError THEN PeriodRaised
    ELSE IF ~DateLE(current, end_norm) THEN PeriodResult(labels, buckets)
    ELSE PeriodLoop(next_period(current, period), end_norm, period,
                    Append(labels, PeriodLabel(current, period)),
                    Append(buckets, current))

\* build_period_labels
build_period_labels(start, end, period) ==
    LET p == NormalPeriod(period)
    IN  PeriodLoop(normalize_period_start(start, p), normalize_period_start(end, p),
                   p, <<>>, <<>>)

\* the filter parameters other than district and school
DefaultFilter ==
    [ period |-> "monthly", start_date |-> NoDateStr, end_date |-> NoDateStr,
      status |-> None, sort_by |-> "name", sort_order |-> "asc" ]

Filters ==
    { DefaultFilter,
      [DefaultFilter EXCEPT !.period = "daily", !.sort_by = "size"],
      [DefaultFilter EXCEPT !.period = "quarter", !.status = "pending",
                            !.start_date = DateStr(2025, 12, 1, TRUE, TRUE, "iso")] }

DistrictParams == {NoParam, 0, 1, 2}
SchoolParams == {NoParam, 2}

ScopeResp(endpoint, token, district_id, school_id, code, queried, records, school_rows, district_rows) ==
    [ endpoint |-> endpoint, user |-> token, district_id |-> district_id,
      school_id |-> school_id, code |-> code,
      queried |-> queried,                \* a DashboardRecord query was executed
      records |-> records,                \* dashboard records counted or returned
      schools |-> school_rows,            \* schools counted or returned
      districts |-> district_rows ]       \* districts counted or returned

ScopeRejected(endpoint, token, district_id, school_id, code) ==
    ScopeResp(endpoint, token, district_id, school_id, code, FALSE, {}, {}, {})

\* the statements that open summary, trends and the two breakdowns: the
\* status code of the first one that raises, 200 when none does
Preamble(token, filter) ==
    IF AuthCode(token) # 200 THEN AuthCode(token)
    ELSE IF ~PeriodOk(filter.period) THEN 400
    ELSE IF parse_date_param(filter.start_date).code # 200 THEN 400
    ELSE IF parse_date_param(filter.end_date).code # 200 THEN 400
    ELSE 200

RangeOf(filter, t) ==
    get_date_range(parse_date_param(filter.start_date).date,
                   parse_date_param(filter.end_date).date, t)

\* apply_scope_filters on a query that selects rows
apply_scope_filters(rows, user, district_id, school_id) ==
    LET admin == is_vpm_admin(user)
        user_district_id == user.district_id
        by_school(rs) == IF ParamTruthy(school_id)
                         THEN {r \in rs : r.school_id = school_id} ELSE rs
    IN  IF ~admin
        THEN IF ParamTruthy(district_id) /\ user_district_id # NoId
                /\ district_id # user_district_id
             THEN [code |-> 403, rows |-> {}, admin |-> admin]
             ELSE IF user_district_id = NoId
             THEN [code |-> 403, rows |-> {}, admin |-> admin]
             ELSE [code |-> 200, admin |-> admin,
                   rows |-> by_school({r \in rows : r.district_id = user_district_id})]
        ELSE [code |-> 200, admin |-> admin,
              rows |-> by_school(IF ParamTruthy(district_id)
                                 THEN {r \in rows : r.district_id = district_id}
                                 ELSE rows)]

\* the rows one of the three counts or series of summary and trends selects
Counted(rows) ==
    {r \in rows : \/ r.opt_in_type = "future_eligibility"
                  \/ r.opt_in_type = "immediate_service"
                  \/ r.service_status = "active"}

\* get_dashboard_summary
GetDashboardSummary(token, filter, district_id, school_id) ==
    /\ scope_resp' =
         IF Preamble(token, filter) # 200
         THEN ScopeRejected("summary", token, district_id, school_id,
                            Preamble(token, filter))
         ELSE LET user == get_user_from_token(token)
                  scoped == apply_scope_filters(dashboard_records, user,
                                                district_id, school_id)
                  base_query == {r \in scoped.rows :
                                    Between(r.referral_date, RangeOf(filter, now))}
                  district_rows ==
                      IF ~scoped.admin
                      THEN {d \in districts : d.id = user.district_id}
                      ELSE IF ParamTruthy(district_id)
                      THEN {d \in districts : d.id = district_id}
                      ELSE districts
                  school_rows0 ==
                      IF ~scoped.admin
                      THEN {s \in schools : s.district_id = user.district_id}
                      ELSE IF ParamTruthy(district_id)
                      THEN {s \in schools : s.district_id = district_id}
                      ELSE schools
                  school_rows == IF ParamTruthy(school_id)
                                 THEN {s \in school_rows0 : s.id = school_id}
                                 ELSE school_rows0
              IN  IF scoped.code # 200
                  THEN ScopeRejected("summary", token, district_id, school_id,
                                     scoped.code)
                  ELSE ScopeResp("summary", token, district_id, school_id, 200, TRUE,
                                 Counted(base_query), school_rows, district_rows)
    /\ UNCHANGED <<now, dbvars, files, seq, sess, nreq, resp, env, dup_case,
                   calc, vault, auth>>

\* get_dashboard_trends: the series count, per period, the rows selected here
GetDashboardTrends(token, filter, district_id, school_id) ==
    /\ scope_resp' =
         IF Preamble(token, filter) # 200
         THEN ScopeRejected("trends", token, district_id, school_id,
                            Preamble(token, filter))
         ELSE LET user == get_user_from_token(token)
                  scoped == apply_scope_filters(dashboard_records, user,
                                                district_id, school_id)
                  base_query == {r \in scoped.rows :
                                    Between(r.referral_date, RangeOf(filter, now))}
              IN  IF scoped.code # 200
                  THEN ScopeRejected("trends", token, district_id, school_id,
                                     scoped.code)
                  ELSE ScopeResp("trends", token, district_id, school_id, 200, TRUE,
                                 Counted(base_query), {}, {})
    /\ UNCHANGED <<now, dbvars, files, seq, sess, nreq, resp, env, dup_case,
                   calc, vault, auth>>

\* get_district_breakdown
GetDistrictBreakdown(token, filter, district_id) ==
    /\ scope_resp' =
         IF AuthCode(token) # 200
         THEN ScopeRejected("district-breakdown", token, district_id, NoParam,
                            AuthCode(token))
         ELSE IF ~is_vpm_admin(get_user_from_token(token))
         THEN ScopeRejected("district-breakdown", token, district_id, NoParam, 403)
         ELSE IF Preamble(token, filter) # 200
         THEN ScopeRejected("district-breakdown", token, district_id, NoParam,
                            Preamble(token, filter))
         ELSE LET district_rows == IF ParamTruthy(district_id)
                                   THEN {d \in districts : d.id = district_id}
                                   ELSE districts
                  records == {r \in dashboard_records :
                                /\ \E d \in district_rows : r.district_id = d.id
                                /\ Between(r.referral_date, RangeOf(filter, now))}
                  school_rows == {s \in schools :
                                    \E d \in district_rows : s.district_id = d.id}
              IN  ScopeResp("district-breakdown", token, district_id, NoParam, 200,
                            TRUE, Counted(records), school_rows, district_rows)
    /\ UNCHANGED <<now, dbvars, files, seq, sess, nreq, resp, env, dup_case,
                   calc, vault, auth>>

\* get_school_breakdown
GetSchoolBreakdown(token, filter, district_id, school_id) ==
    /\ scope_resp' =
         IF Preamble(token, filter) # 200
         THEN ScopeRejected("school-breakdown", token, district_id, school_id,
                            Preamble(token, filter))
         ELSE LET user == get_user_from_token(token)
                  admin == is_vpm_admin(user)
                  user_district_id == user.district_id
                  effective == IF ~admin THEN user_district_id ELSE district_id
                  school_rows0 == IF ParamTruthy(effective)
                                  THEN {s \in schools : s.district_id = effective}
                                  ELSE schools
                  school_rows == IF ParamTruthy(school_id)
                                 THEN {s \in school_rows0 : s.id = school_id}
                                 ELSE school_rows0
                  records == {r \in dashboard_records :
                                /\ \E s \in school_rows : r.school_id = s.id
                                /\ Between(r.referral_date, RangeOf(filter, now))}
              IN  IF ~admin /\ ParamTruthy(district_id) /\ user_district_id # NoId
                     /\ district_id # user_district_id
                  THEN ScopeRejected("school-breakdown", token, district_id,
                                     school_id, 403)
                  ELSE IF ~admin /\ user_district_id = NoId
                  THEN ScopeRejected("school-breakdown", token, district_id,
                                     school_id, 403)
                  ELSE ScopeResp("school-breakdown", token, district_id, school_id,
                                 200, TRUE, Counted(records), school_rows,
                                 {d \in districts :
                                     \E s \in school_rows : s.district_id = d.id})
    /\ UNCHANGED <<now, dbvars, files, seq, sess, nreq, resp, env, dup_case,
                   calc, vault, auth>>

\* the raise of parse_int_id
BadParam == -2

\* int() of the digit strings of the model's universe
IntOfDigits ==
    [s \in {"0", "1", "2", "3"} |->
        CASE s = "0" -> 0 [] s = "1" -> 1 [] s = "2" -> 2 [] s = "3" -> 3]

\* raw.split("-")[-1] on the strings of the model's universe
LastDashSegment(raw) == IF raw = "1-2" THEN "2" ELSE raw

\* parse_int_id of get_districts_schools
parse_int_id(value) ==
    IF Falsy(value) THEN NoParam
    ELSE LET raw == LastDashSegment(Strip(value))
         IN  IF raw \notin DOMAIN IntOfDigits THEN BadParam ELSE IntOfDigits[raw]

DistrictIdStrings == {None, "0", "1", "2", "x"}
SchoolIdStrings == {None, "1-2"}

\* get_districts_schools with page 1, no search, forms included
GetDistrictsSchools(token, filter, district_id, school_id) ==
    /\ scope_resp' =
         LET district_id_int == parse_int_id(district_id)
             school_id_int == parse_int_id(school_id)
             date_from == parse_date_param(filter.start_date)
             date_to == parse_date_param(filter.end_date)
             rejected(code) == ScopeRejected("districts-schools", token,
                                             district_id_int, school_id_int, code)
         IN  IF AuthCode(token) # 200 THEN rejected(AuthCode(token))
             ELSE IF date_from.code # 200 \/ date_to.code # 200 THEN rejected(400)
             ELSE IF ~Falsy(filter.status) /\ filter.status \notin AllowedStatuses
                  THEN rejected(400)
             ELSE IF filter.sort_by \notin {"name", "total_students", "active_students",
                                           "total_schools"} THEN rejected(400)
             ELSE IF filter.sort_order \notin {"asc", "desc"} THEN rejected(400)
             ELSE IF district_id_int = BadParam \/ school_id_int = BadParam
                  THEN rejected(400)
             ELSE LET user == get_user_from_token(token)
                      admin == is_vpm_admin(user)
                      district_rows ==
                          IF ~admin THEN {d \in districts : d.id = user.district_id}
                          ELSE IF ParamTruthy(district_id_int)
                          THEN {d \in districts : d.id = district_id_int}
                          ELSE districts
                      school_rows ==
                          {s \in schools :
                              /\ \E d \in district_rows : s.district_id = d.id
                              /\ ParamTruthy(school_id_int) => s.id = school_id_int}
                      filtered ==
                          {r \in dashboard_records :
                              /\ date_from.date # NoDate =>
                                     DateLE(date_from.date, r.referral_date)
                              /\ date_to.date # NoDate =>
                                     DateLE(r.referral_date, date_to.date)
                              /\ ~Falsy(filter.status) =>
                                     r.service_status = filter.status}
                      records ==
                          {r \in filtered :
                              \/ \E d \in district_rows : r.district_id = d.id
                              \/ \E s \in school_rows : r.school_id = s.id}
                  IN  IF ParamTruthy(district_id_int) /\ ~admin THEN rejected(403)
                      ELSE IF ~admin /\ user.district_id = NoId THEN rejected(403)
                      ELSE IF ParamTruthy(district_id_int)
                              /\ ~(\E d \in districts : d.id = district_id_int)
                           THEN rejected(404)
                      ELSE IF ParamTruthy(school_id_int)
                              /\ ~(\E s \in schools : s.id = school_id_int)
                           THEN rejected(404)
                      ELSE ScopeResp("districts-schools", token, district_id_int,
                                     school_id_int, 200, TRUE, records, school_rows,
                                     district_rows)
    /\ UNCHANGED <<now, dbvars, files, seq, sess, nreq, resp, env, dup_case,
                   calc, vault, auth>>

(***************************************************************************)
(* The duplicate check on its own: step 9 of submit_intake_form applied to *)
(* the form of dup_case over the rows of intake_queue.                     *)
(***************************************************************************)
DupApply ==
    /\ ~dup_case.applied
    /\ LET pf == Parsed(dup_case.form)
       IN  dup_case' = [dup_case EXCEPT
                          !.applied = TRUE,
                          !.result = check_duplicate_submission(intake_queue,
                                         pf.first_name, pf.last_name, pf.dob,
                                         pf.parent_email, now)]
    /\ UNCHANGED <<now, dbvars, files, seq, sess, nreq, resp, env, scope_resp,
                   calc, vault, auth>>

(***************************************************************************)
(* Isolated calls of the functions of utils.py.  calc holds the function   *)
(* called (fn), its input and, once applied, its results: band for         *)
(* calculate_grade_band(grade), period for calculate_fiscal_period(date),  *)
(* token for encrypt_phi(text), round for decrypt_phi of that token and    *)
(* plain for decrypt_phi(cipher).                                          *)
(***************************************************************************)
NoPeriod == [fy |-> 0, q |-> 0]

NoCalc ==
    [fn |-> "none", grade |-> NoGrade, date |-> NoDate, text |-> None, cipher |-> "",
     applied |-> FALSE, band |-> None, period |-> NoPeriod, token |-> "",
     round |-> None, plain |-> None]

CalcApply ==
    /\ ~calc.applied
    /\ calc.fn # "none"
    /\ calc' = [calc EXCEPT
                  !.applied = TRUE,
                  !.band = IF calc.fn = "grade" THEN calculate_grade_band(calc.grade)
                           ELSE @,
                  !.period = IF calc.fn = "fiscal" THEN calculate_fiscal_period(calc.date)
                             ELSE @,
                  !.token = IF calc.fn = "vault" THEN encrypt_phi(calc.text) ELSE @,
                  !.round = IF calc.fn = "vault" THEN decrypt_phi(encrypt_phi(calc.text))
                            ELSE @,
                  !.plain = IF calc.fn = "vault" THEN decrypt_phi(calc.cipher) ELSE @]
    /\ UNCHANGED <<now, dbvars, files, seq, sess, nreq, resp, env, scope_resp,
                   dup_case, vault, auth>>

(***************************************************************************)
(* The process-wide cipher of utils.py.  vault.fernet is the key of the    *)
(* global _fernet (None before the first call), vault.env_key the value of *)
(* ENCRYPTION_KEY (None when unset), vault.th the threads of the process   *)
(* inside encrypt_phi or decrypt_phi, vault.made the tokens encrypt_phi    *)
(* has returned and vault.read the last result of decrypt_phi.             *)
(***************************************************************************)
\* the keys Fernet.generate_key() returns, in the order of the calls
GeneratedKeys == <<"kAAAAA", "kBBBBB">>

IdleThread == [pc |-> "idle", op |-> "none", data |-> "", key |-> None, fernet |-> None]

NoRead == [token |-> "", plain |-> None]

NoVault ==
    [fernet |-> None, env_key |-> None, nkey |-> 0, ncall |-> 0,
     th |-> [p \in Workers |-> IdleThread], made |-> {}, read |-> NoRead]

vault_others ==
    <<now, dbvars, files, seq, sess, nreq, resp, env, scope_resp, dup_case, calc, auth>>

\* a thread calls encrypt_phi(data) with a non-empty data, or decrypt_phi
\* with a token encrypt_phi has returned: it enters get_fernet
VaultCall(p, op, data) ==
    /\ vault.th[p].pc = "idle"
    /\ vault.ncall < MaxVaultCalls
    /\ op = "encrypt" => data \in Plaintexts
    /\ op = "decrypt" => data \in {m.token : m \in vault.made}
    /\ vault' = [vault EXCEPT !.ncall = @ + 1,
                              !.th[p] = [IdleThread EXCEPT !.pc = "check", !.op = op,
                                                           !.data = data]]
    /\ UNCHANGED vault_others

\* get_fernet: if _fernet is None
GetFernetCheck(p) ==
    /\ vault.th[p].pc = "check"
    /\ vault' = [vault EXCEPT !.th[p].pc = IF vault.fernet = None THEN "key" ELSE "return"]
    /\ UNCHANGED vault_others

\* get_encryption_key: the value of ENCRYPTION_KEY, or a newly generated key
get_encryption_key(p) ==
    /\ vault.th[p].pc = "key"
    /\ IF vault.env_key # None
       THEN vault' = [vault EXCEPT !.th[p].pc = "assign", !.th[p].key = vault.env_key]
       ELSE vault' = [vault EXCEPT !.th[p].pc = "assign",
                                   !.th[p].key = GeneratedKeys[vault.nkey + 1],
                                   !.nkey = @ + 1]
    /\ UNCHANGED vault_others

\* get_fernet: _fernet = Fernet(key)
GetFernetAssign(p) ==
    /\ vault.th[p].pc = "assign"
    /\ vault' = [vault EXCEPT !.fernet = vault.th[p].key, !.th[p].pc = "return"]
    /\ UNCHANGED vault_others

\* get_fernet: return _fernet
GetFernetReturn(p) ==
    /\ vault.th[p].pc = "return"
    /\ vault' = [vault EXCEPT !.th[p].fernet = vault.fernet, !.th[p].pc = "apply"]
    /\ UNCHANGED vault_others

\* fernet.encrypt(data) or fernet.decrypt(encrypted_data), and the return
VaultApply(p) ==
    /\ vault.th[p].pc = "apply"
    /\ LET t == vault.th[p]
       IN  IF t.op = "encrypt"
           THEN vault' = [vault EXCEPT
                            !.th[p] = IdleThread,
                            !.made = @ \cup {[text |-> t.data,
                                              token |-> FernetEncrypt(t.fernet, t.data)]}]
           ELSE vault' = [vault EXCEPT
                            !.th[p] = IdleThread,
                            !.read = [token |-> t.data,
                                      plain |-> DecryptResult(FernetDecrypt(t.fernet, t.data))]]
    /\ UNCHANGED vault_others

(***************************************************************************)
(* Time                                                                    *)
(***************************************************************************)
Tick ==
    /\ now < MaxTime
    /\ now' = now + 1
    /\ UNCHANGED <<dbvars, files, seq, sess, nreq, resp, env, scope_resp, dup_case,
                   calc, vault, auth>>

\* nothing is asked of the service for longer than the retention period
Sleep ==
    /\ now <= MaxTime
    /\ now' = calculate_expires_at(now) + 1
    /\ UNCHANGED <<dbvars, files, seq, sess, nreq, resp, env, scope_resp, dup_case,
                   calc, vault, auth>>

(***************************************************************************)
(* Accounts (auth/routes.py).  Each handler is one action on the tables    *)
(* users, otp_verifications and password_reset_tokens; auth.out is the     *)
(* response sent last, auth.otp_issued and auth.token_issued hold what     *)
(* was generated last for each email, auth.done the tokens for which a     *)
(* reset was answered with success.                                        *)
(***************************************************************************)
User(email, password_hash, is_verified) ==
    [email |-> email, password_hash |-> password_hash, is_verified |-> is_verified]

OTPVerification(email, otp, expires_at) ==
    [email |-> email, otp |-> otp, expires_at |-> expires_at]

PasswordResetToken(email, token, expires_at, used) ==
    [email |-> email, token |-> token, expires_at |-> expires_at, used |-> used]

\* hash_password: bcrypt with a fresh salt
hash_password(password, salt) == [password |-> password, salt |-> salt]

AuthEmails == {"ana@example.com", "ben@example.com"}

AuthOut(op, email, message, presented) ==
    [op |-> op, email |-> email, message |-> message, presented |-> presented]

NoAuth ==
    [ users |-> {}, otps |-> {}, tokens |-> {},
      otp_issued |-> [e \in AuthEmails |-> None],
      token_issued |-> [e \in AuthEmails |-> NoId],
      done |-> {}, salt |-> 1, uuid |-> 1, ncall |-> 0,
      out |-> AuthOut("none", None, None, None) ]

auth_others ==
    <<now, dbvars, files, seq, sess, nreq, resp, env, scope_resp, dup_case, calc, vault>>

UsersByEmail(email) == {u \in auth.users : u.email = email}

\* "Generate and store new OTP": delete the OTPs of the email, add the new one
StoreOtp_Kept(a, email, otp) ==
    [a EXCEPT !.otps = @ \cup {OTPVerification(email, otp, now + OTP_EXPIRY_MINUTES)},
              !.otp_issued[email] = otp]

StoreOtp(a, email, otp) ==
    [a EXCEPT !.otps = {o \in @ : o.email # email}
                           \cup {OTPVerification(email, otp, now + OTP_EXPIRY_MINUTES)},
              !.otp_issued[email] = otp]

\* signup; otp is what generate_otp returns
Signup(email, password, otp) ==
    /\ LET called == [auth EXCEPT !.ncall = @ + 1]
       IN  IF UsersByEmail(email) # {}
           THEN \E existing_user \in UsersByEmail(email) :
                  IF ~existing_user.is_verified
                  THEN auth' = [StoreOtp(called, email, otp) EXCEPT
                                  !.out = AuthOut("signup", email,
                                      "OTP resent to your email for verification", otp)]
                  ELSE auth' = [called EXCEPT
                                  !.out = AuthOut("signup", email,
                                                  "Email already registered", None)]
           ELSE LET new_user == User(email, hash_password(password, auth.salt), FALSE)
                    added == [called EXCEPT !.users = @ \cup {new_user},
                                            !.salt = @ + 1]
                IN  auth' = [StoreOtp(added, email, otp) EXCEPT
                               !.out = AuthOut("signup", email,
                                   "OTP sent to your email for verification", otp)]
    /\ UNCHANGED auth_others

\* verify_otp
OtpExpired(otp_record) == now > otp_record.expires_at

VerifyOtp(email, otp) ==
    /\ LET called == [auth EXCEPT !.ncall = @ + 1]
           found == {o \in auth.otps : o.email = email /\ o.otp = otp}
       IN  IF found = {}
           THEN auth' = [called EXCEPT
                           !.out = AuthOut("verify_otp", email, "Invalid OTP", otp)]
           ELSE \E otp_record \in found :
                  IF OtpExpired(otp_record)
                  THEN auth' = [called EXCEPT
                                  !.otps = @ \ {otp_record},
                                  !.out = AuthOut("verify_otp", email,
                                                  "OTP has expired", otp)]
                  ELSE IF UsersByEmail(email) = {}
                  THEN auth' = [called EXCEPT
                                  !.out = AuthOut("verify_otp", email,
                                                  "User not found", otp)]
                  ELSE \E user \in UsersByEmail(email) :
                         auth' = [called EXCEPT
                                    !.users = (@ \ {user})
                                        \cup {[user EXCEPT !.is_verified = TRUE]},
                                    !.otps = @ \ {otp_record},
                                    !.out = AuthOut("verify_otp", email,
                                                    "access_token", otp)]
    /\ UNCHANGED auth_others

\* resend_otp
ResendOtp(email, otp) ==
    /\ LET called == [auth EXCEPT !.ncall = @ + 1]
       IN  IF UsersByEmail(email) = {}
           THEN auth' = [called EXCEPT
                           !.out = AuthOut("resend_otp", email,
                                           "Email not registered", None)]
           ELSE \E user \in UsersByEmail(email) :
                  IF user.is_verified
                  THEN auth' = [called EXCEPT
                                  !.out = AuthOut("resend_otp", email,
                                                  "Email already verified", None)]
                  ELSE auth' = [StoreOtp(called, email, otp) EXCEPT
                                  !.out = AuthOut("resend_otp", email,
                                      "OTP resent to your email for verification", otp)]
    /\ UNCHANGED auth_others

\* forgot_password; the token is a fresh uuid4
ForgotPassword(email) ==
    /\ LET called == [auth EXCEPT !.ncall = @ + 1]
           silent == AuthOut("forgot_password", email,
                             "Password reset link sent to your email", None)
       IN  IF UsersByEmail(email) = {}
           THEN auth' = [called EXCEPT !.out = silent]
           ELSE LET token == auth.uuid
                    reset_token == PasswordResetToken(email, token,
                                       now + RESET_TOKEN_EXPIRY_MINUTES, FALSE)
                IN  auth' = [called EXCEPT
                               !.tokens = {t \in @ : t.email # email}
                                              \cup {reset_token},
                               !.token_issued[email] = token,
                               !.uuid = @ + 1,
                               !.out = [silent EXCEPT !.presented = token]]
    /\ UNCHANGED auth_others

\* the filter of reset_password: PasswordResetToken.used == False
TokenUsable_Any(t) == TRUE

TokenUsable(t) == t.used = FALSE

\* reset_password
ResetPassword(token, new_password) ==
    /\ LET called == [auth EXCEPT !.ncall = @ + 1]
           found == {t \in auth.tokens : t.token = token /\ TokenUsable(t)}
       IN  IF found = {}
           THEN auth' = [called EXCEPT
                           !.out = AuthOut("reset_password", None,
                                           "Invalid or expired reset token", token)]
           ELSE \E token_record \in found :
                  IF now > token_record.expires_at
                  THEN auth' = [called EXCEPT
                                  !.tokens = @ \ {token_record},
                                  !.out = AuthOut("reset_password", token_record.email,
                                                  "Reset token has expired", token)]
                  ELSE IF UsersByEmail(token_record.email) = {}
                  THEN auth' = [called EXCEPT
                                  !.out = AuthOut("reset_password", token_record.email,
                                                  "User not found", token)]
                  ELSE \E user \in UsersByEmail(token_record.email) :
                         auth' = [called EXCEPT
                                    !.users = (@ \ {user}) \cup
                                        {[user EXCEPT !.password_hash =
                                            hash_password(new_password, auth.salt)]},
                                    !.salt = @ + 1,
                                    !.tokens = (@ \ {token_record}) \cup
                                        {[token_record EXCEPT !.used = TRUE]},
                                    !.done = @ \cup {token},
                                    !.out = AuthOut("reset_password", token_record.email,
                                        "Password reset successfully. Please log in again.",
                                        token)]
    /\ UNCHANGED auth_others

\* minutes pass between two requests
AuthTick ==
    /\ now < MaxAuthTime
    /\ now' = now + AuthTickMinutes
    /\ UNCHANGED <<dbvars, files, seq, sess, nreq, resp, env, scope_resp, dup_case,
                   calc, vault, auth>>

(***************************************************************************)
(* Initial state: reference data is loaded, no intake has been submitted.  *)
(***************************************************************************)
InitDistricts == {District(1, "North", "N-1"), District(2, "South", "S-1")}
InitSchools == {School(1, 1, "Oak"), School(2, 2, "Oak Hill")}
InitSequences == [district |-> 3, school |-> 3, dashboard |-> 1, queue |-> 1,
            audit |-> 1, uuid |-> 1, file |-> 1]

NoScopeResp == ScopeRejected("none", NoId, NoParam, NoParam, 0)
NoDupCase == [applied |-> FALSE, form |-> NoForm, result |-> FALSE]

Init ==
    /\ now = 0
    /\ districts = InitDistricts
    /\ schools = InitSchools
    /\ dashboard_records = {}
    /\ intake_queue = {}
    /\ audit_logs = {}
    /\ files = {}
    /\ seq = InitSequences
    /\ sess = [p \in Workers |-> IdleSess]
    /\ nreq = 0
    /\ resp = NoResp
    /\ env = [cap |-> MaxReq, forms |-> Forms]
    /\ scope_resp = NoScopeResp
    /\ dup_case = NoDupCase
    /\ calc = NoCalc
    /\ vault = NoVault
    /\ auth = NoAuth

Next ==
    \/ \E p \in Workers, f \in env.forms, c \in CaptchaOutcomes : SubmitBegin(p, f, c)
    \/ \E p \in Workers : SubmitResolve(p)
    \/ \E p \in Workers : SubmitUnblock(p)
    \/ \E p \in Workers : SubmitFiles(p)
    \/ \E p \in Workers : SubmitCommit(p)
    \/ \E p \in Workers : SubmitAbort(p)

\* concurrent submissions at one instant
Spec == Init /\ [][Next]_vars

(***************************************************************************)
(* Sequential submissions of one identity while the clock advances.        *)
(***************************************************************************)
IdentityForms ==
    { BaseForm,
      [BaseForm EXCEPT !.first_name = "ANA", !.parent_email = "Ana@Example.com"],
      [BaseForm EXCEPT !.dob = DateStr(2012, 4, 1, FALSE, FALSE, "iso")] }

InitSeq ==
    /\ now = 0
    /\ districts = InitDistricts
    /\ schools = InitSchools
    /\ dashboard_records = {}
    /\ intake_queue = {}
    /\ audit_logs = {}
    /\ files = {}
    /\ seq = InitSequences
    /\ sess = [p \in Workers |-> IdleSess]
    /\ nreq = 0
    /\ resp = NoResp
    /\ env = [cap |-> MaxSeqReq, forms |-> IdentityForms]
    /\ scope_resp = NoScopeResp
    /\ dup_case = NoDupCase
    /\ calc = NoCalc
    /\ vault = NoVault
    /\ auth = NoAuth

NextSeq ==
    \/ \E f \in env.forms, c \in CaptchaOutcomes : SubmitBegin("w1", f, c)
    \/ SubmitResolve("w1")
    \/ SubmitFiles("w1")
    \/ SubmitCommit("w1")
    \/ SubmitAbort("w1")
    \/ Tick

SpecSeq == InitSeq /\ [][NextSeq]_vars

(***************************************************************************)
(* Submissions followed by the authenticated intake handlers.              *)
(***************************************************************************)
AccessForms == {BaseForm, [InsuredForm EXCEPT !.insurance_card_front = GoodFile]}

InitAccess ==
    /\ now = 0
    /\ districts = InitDistricts
    /\ schools = InitSchools
    /\ dashboard_records = {}
    /\ intake_queue = {}
    /\ audit_logs = {}
    /\ files = {}
    /\ seq = InitSequences
    /\ sess = [p \in Workers |-> IdleSess]
    /\ nreq = 0
    /\ resp = NoResp
    /\ env = [cap |-> MaxAccessReq, forms |-> AccessForms]
    /\ scope_resp = NoScopeResp
    /\ dup_case = NoDupCase
    /\ calc = NoCalc
    /\ vault = NoVault
    /\ auth = NoAuth

NextAccess ==
    \/ \E f \in env.forms : SubmitBegin("w1", f, 200)
    \/ SubmitResolve("w1")
    \/ SubmitFiles("w1")
    \/ SubmitCommit("w1")
    \/ \E token \in Tokens, identifier \in Identifiers :
           Free("w1") /\ GetIntakeFormDetails(token, identifier)
    \/ \E token \in Tokens, identifier \in Identifiers, upd \in UpdatePayloads :
           UpdateIntakeForm("w1", token, identifier, upd)
    \/ UpdateFormAudit("w1")
    \/ \E token \in Tokens, identifier \in Identifiers, new_status \in StatusValues :
           UpdateIntakeStatus("w1", token, identifier, new_status)
    \/ UpdateStatusAudit("w1")
    \/ \E identifier \in Identifiers : Free("w1") /\ CheckIntakeStatus(identifier)

SpecAccess == InitAccess /\ [][NextAccess]_vars

(***************************************************************************)
(* One submission, then status and form updates by any user while the      *)
(* clock advances; an update may fail between its two commits.            *)
(***************************************************************************)
StatusForms == {BaseForm}

\* the callers: a global admin, a district admin, and a request without token
StatusTokens == {1, 2, NoId}

\* the update payloads offered next to the status calls
StatusPayloads ==
    { [EmptyForm EXCEPT !.parent_name = "Sam Lee", !.parent_email = "sam@example.com",
                        !.parent_phone = "555-0199"] }

InitStatus ==
    /\ now = 0
    /\ districts = InitDistricts
    /\ schools = InitSchools
    /\ dashboard_records = {}
    /\ intake_queue = {}
    /\ audit_logs = {}
    /\ files = {}
    /\ seq = InitSequences
    /\ sess = [p \in Workers |-> IdleSess]
    /\ nreq = 0
    /\ resp = NoResp
    /\ env = [cap |-> MaxStatusReq, forms |-> StatusForms]
    /\ scope_resp = NoScopeResp
    /\ dup_case = NoDupCase
    /\ calc = NoCalc
    /\ vault = NoVault
    /\ auth = NoAuth

NextStatus ==
    \/ \E f \in env.forms : dashboard_records = {} /\ SubmitBegin("w1", f, 200)
    \/ SubmitResolve("w1")
    \/ SubmitFiles("w1")
    \/ SubmitCommit("w1")
    \/ \E token \in StatusTokens, identifier \in Identifiers, new_status \in StatusValues :
           UpdateIntakeStatus("w1", token, identifier, new_status)
    \/ UpdateStatusAudit("w1")
    \/ \E token \in StatusTokens, identifier \in Identifiers, upd \in StatusPayloads :
           UpdateIntakeForm("w1", token, identifier, upd)
    \/ UpdateFormAudit("w1")
    \/ UpdateAbort("w1")
    \/ Free("w1") /\ now < MaxStatusTime /\ Tick

SpecStatus == InitStatus /\ [][NextStatus]_vars

(***************************************************************************)
(* One submission with insurance, a card and demographics, then form       *)
(* updates with patches of every section, valid and invalid.               *)
(***************************************************************************)
UpdateForms ==
    { [InsuredForm EXCEPT !.insurance_card_front = GoodFile,
                          !.relationship = "Parent",
                          !.sex_at_birth = "F", !.race = <<"Asian">>] }

StudentPatch ==
    [EmptyForm EXCEPT !.first_name = "Ann", !.last_name = "Ray",
                      !.full_name = "Ann Ray", !.grade = GradeStr(7, "th"),
                      !.school = "Oak Hill",
                      !.dob = DateStr(2011, 5, 9, TRUE, TRUE, "iso"),
                      !.student_id = "S-2"]

PatchPayloads ==
    { StudentPatch,
      [StudentPatch EXCEPT !.student_id = None],
      [EmptyForm EXCEPT !.first_name = "Ann"],
      [EmptyForm EXCEPT !.parent_name = "Sam Lee", !.parent_email = "sam@example.com",
                        !.parent_phone = "555-0199"],
      [EmptyForm EXCEPT !.insurance_company = "Best Care"],
      [EmptyForm EXCEPT !.has_insurance = "yes", !.insurance_company = "Best Care",
                        !.policyholder_name = "Sam Lee", !.member_id = "M-88"],
      [EmptyForm EXCEPT !.has_insurance = "yes", !.insurance_company = "Best Care"],
      [EmptyForm EXCEPT !.insurance_card_front = BadFile],
      [EmptyForm EXCEPT !.insurance_card_front = GoodFile,
                        !.service_category = <<"Counseling">>,
                        !.severity_of_concern = "high",
                        !.type_of_service_needed = <<"Group">>],
      [EmptyForm EXCEPT !.service_category = <<"Other Service">>,
                        !.severity_of_concern = "severe",
                        !.type_of_service_needed = <<"Group">>],
      [EmptyForm EXCEPT !.service_category = <<"Counseling">>,
                        !.severity_of_concern = "severe",
                        !.type_of_service_needed = <<"Group">>],
      [EmptyForm EXCEPT !.race = <<"Other (please specify)">>],
      [EmptyForm EXCEPT !.sex_at_birth = "M"] }

\* the caller of the updates: the listed admin
UpdateTokens == {1}

InitUpdate ==
    /\ now = 0
    /\ districts = InitDistricts
    /\ schools = InitSchools
    /\ dashboard_records = {}
    /\ intake_queue = {}
    /\ audit_logs = {}
    /\ files = {}
    /\ seq = InitSequences
    /\ sess = [p \in Workers |-> IdleSess]
    /\ nreq = 0
    /\ resp = NoResp
    /\ env = [cap |-> MaxUpdateReq, forms |-> UpdateForms]
    /\ scope_resp = NoScopeResp
    /\ dup_case = NoDupCase
    /\ calc = NoCalc
    /\ vault = NoVault
    /\ auth = NoAuth

NextUpdate ==
    \/ \E f \in env.forms : dashboard_records = {} /\ SubmitBegin("w1", f, 200)
    \/ SubmitResolve("w1")
    \/ SubmitFiles("w1")
    \/ SubmitCommit("w1")
    \/ \E token \in UpdateTokens, identifier \in Identifiers, upd \in PatchPayloads :
           UpdateIntakeForm("w1", token, identifier, upd)
    \/ UpdateFormAudit("w1")
    \/ UpdateAbort("w1")

SpecUpdate == InitUpdate /\ [][NextUpdate]_vars

(***************************************************************************)
(* Submissions, then lookups by handle before and after the retention      *)
(* period has passed.                                                      *)
(***************************************************************************)
InitExpiry ==
    /\ now = 0
    /\ districts = InitDistricts
    /\ schools = InitSchools
    /\ dashboard_records = {}
    /\ intake_queue = {}
    /\ audit_logs = {}
    /\ files = {}
    /\ seq = InitSequences
    /\ sess = [p \in Workers |-> IdleSess]
    /\ nreq = 0
    /\ resp = NoResp
    /\ env = [cap |-> MaxExpiryReq, forms |-> AccessForms]
    /\ scope_resp = NoScopeResp
    /\ dup_case = NoDupCase
    /\ calc = NoCalc
    /\ vault = NoVault
    /\ auth = NoAuth

NextExpiry ==
    \/ \E f \in env.forms : now <= MaxTime /\ SubmitBegin("w1", f, 200)
    \/ SubmitResolve("w1")
    \/ SubmitFiles("w1")
    \/ SubmitCommit("w1")
    \/ \E token \in Tokens, identifier \in Identifiers :
           Free("w1") /\ GetIntakeFormDetails(token, identifier)
    \/ \E identifier \in Identifiers : Free("w1") /\ CheckIntakeStatus(identifier)
    \/ Free("w1") /\ Sleep

SpecExpiry == InitExpiry /\ [][NextExpiry]_vars

(***************************************************************************)
(* Submissions with an insurance card, then views of the details and of    *)
(* the card; the commit of a view's audit entry may fail.                  *)
(***************************************************************************)
ViewForms == {[InsuredForm EXCEPT !.insurance_card_front = GoodFile]}

InitView ==
    /\ now = 0
    /\ districts = InitDistricts
    /\ schools = InitSchools
    /\ dashboard_records = {}
    /\ intake_queue = {}
    /\ audit_logs = {}
    /\ files = {}
    /\ seq = InitSequences
    /\ sess = [p \in Workers |-> IdleSess]
    /\ nreq = 0
    /\ resp = NoResp
    /\ env = [cap |-> MaxViewReq, forms |-> ViewForms]
    /\ scope_resp = NoScopeResp
    /\ dup_case = NoDupCase
    /\ calc = NoCalc
    /\ vault = NoVault
    /\ auth = NoAuth

NextView ==
    \/ \E f \in env.forms : SubmitBegin("w1", f, 200)
    \/ SubmitResolve("w1")
    \/ SubmitFiles("w1")
    \/ SubmitCommit("w1")
    \/ \E token \in Tokens, identifier \in Identifiers :
           Free("w1") /\ GetIntakeFormDetails(token, identifier)
    \/ \E token \in Tokens, identifier \in Identifiers :
           Free("w1") /\ DetailsCommitFails(token, identifier)
    \/ \E token \in Tokens, filename \in FileNames :
           Free("w1") /\ ServeInsuranceCard(token, filename)
    \/ \E token \in Tokens, filename \in FileNames :
           Free("w1") /\ ServeCommitFails(token, filename)

SpecView == InitView /\ [][NextView]_vars

(***************************************************************************)
(* Submissions of valid and invalid forms, one at a time, the CAPTCHA      *)
(* passing.                                                                *)
(***************************************************************************)
NextValidate ==
    \/ \E f \in env.forms : SubmitBegin("w1", f, 200)
    \/ SubmitResolve("w1")
    \/ SubmitFiles("w1")
    \/ SubmitCommit("w1")

SpecValidate == Init /\ [][NextValidate]_vars

(***************************************************************************)
(* Threads of one process that encrypt and decrypt, with ENCRYPTION_KEY    *)
(* set or unset.                                                           *)
(***************************************************************************)
VaultTexts == {"Ana", "S-1"}

InitVault ==
    /\ now = 0
    /\ districts = InitDistricts
    /\ schools = InitSchools
    /\ dashboard_records = {}
    /\ intake_queue = {}
    /\ audit_logs = {}
    /\ files = {}
    /\ seq = InitSequences
    /\ sess = [p \in Workers |-> IdleSess]
    /\ nreq = 0
    /\ resp = NoResp
    /\ env = [cap |-> 0, forms |-> {}]
    /\ scope_resp = NoScopeResp
    /\ dup_case = NoDupCase
    /\ calc = NoCalc
    /\ vault \in {[NoVault EXCEPT !.env_key = k] : k \in {None, EnvKey}}
    /\ auth = NoAuth

NextVault ==
    \/ \E p \in Workers, data \in VaultTexts : VaultCall(p, "encrypt", data)
    \/ \E p \in Workers, m \in vault.made : VaultCall(p, "decrypt", m.token)
    \/ \E p \in Workers : GetFernetCheck(p)
    \/ \E p \in Workers : get_encryption_key(p)
    \/ \E p \in Workers : GetFernetAssign(p)
    \/ \E p \in Workers : GetFernetReturn(p)
    \/ \E p \in Workers : VaultApply(p)

SpecVault == InitVault /\ [][NextVault]_vars

(***************************************************************************)
(* One submission, then status updates by two users in sessions that run   *)
(* next to each other.                                                     *)
(***************************************************************************)
RaceTokens == {1, 2}
RaceStatuses == {"processed", "active"}

InitRace ==
    /\ now = 0
    /\ districts = InitDistricts
    /\ schools = InitSchools
    /\ dashboard_records = {}
    /\ intake_queue = {}
    /\ audit_logs = {}
    /\ files = {}
    /\ seq = InitSequences
    /\ sess = [p \in Workers |-> IdleSess]
    /\ nreq = 0
    /\ resp = NoResp
    /\ env = [cap |-> MaxRaceReq, forms |-> StatusForms]
    /\ scope_resp = NoScopeResp
    /\ dup_case = NoDupCase
    /\ calc = NoCalc
    /\ vault = NoVault
    /\ auth = NoAuth

NextRace ==
    \/ \E f \in env.forms : dashboard_records = {} /\ SubmitBegin("w1", f, 200)
    \/ SubmitResolve("w1")
    \/ SubmitFiles("w1")
    \/ SubmitCommit("w1")
    \/ \E p \in Workers, token \in RaceTokens, identifier \in Identifiers,
          new_status \in RaceStatuses :
           UpdateStatusLoad(p, token, identifier, new_status)
    \/ \E p \in Workers : UpdateStatusCommit(p)
    \/ \E p \in Workers : UpdateStatusAudit(p)
    \/ dashboard_records # {} /\ now < MaxRaceTime /\ Tick

SpecRace == InitRace /\ [][NextRace]_vars

(***************************************************************************)
(* One call of build_period_labels on each input of its universe.          *)
(***************************************************************************)
PeriodNames == {"weekly", "monthly", "quarterly", "yearly",
                "week", "month", "quarter", "year"}

PeriodDates ==
    { [y |-> 2024, m |-> 12, d |-> 30], [y |-> 2025, m |-> 1, d |-> 1],
      [y |-> 2025, m |-> 1, d |-> 31], [y |-> 2025, m |-> 2, d |-> 28],
      [y |-> 2025, m |-> 3, d |-> 15], [y |-> 2025, m |-> 6, d |-> 30],
      [y |-> 2025, m |-> 12, d |-> 31], [y |-> 2026, m |-> 3, d |-> 1],
      [y |-> 9999, m |-> 11, d |-> 30], [y |-> 9999, m |-> 12, d |-> 27],
      [y |-> 9999, m |-> 12, d |-> 31] }

PeriodCase(start, end, period) ==
    [fn |-> "labels", start |-> start, end |-> end, name |-> period,
     applied |-> FALSE, out |-> PeriodRaised]

PeriodCases ==
    {PeriodCase(a, b, n) : a \in PeriodDates, b \in PeriodDates, n \in PeriodNames}

PeriodApply ==
    /\ calc.fn = "labels"
    /\ ~calc.applied
    /\ calc' = [calc EXCEPT !.applied = TRUE,
                            !.out = build_period_labels(calc.start, calc.end, calc.name)]
    /\ UNCHANGED <<now, dbvars, files, seq, sess, nreq, resp, env, scope_resp,
                   dup_case, vault, auth>>

InitPeriod ==
    /\ now = 0
    /\ districts = InitDistricts
    /\ schools = InitSchools
    /\ dashboard_records = {}
    /\ intake_queue = {}
    /\ audit_logs = {}
    /\ files = {}
    /\ seq = InitSequences
    /\ sess = [p \in Workers |-> IdleSess]
    /\ nreq = 0
    /\ resp = NoResp
    /\ env = [cap |-> 0, forms |-> {}]
    /\ scope_resp = NoScopeResp
    /\ dup_case = NoDupCase
    /\ calc \in {c \in PeriodCases : c.end.y - c.start.y <= MaxSpanYears}
    /\ vault = NoVault
    /\ auth = NoAuth

NextPeriod == PeriodApply

SpecPeriod == InitPeriod /\ [][NextPeriod]_vars

(***************************************************************************)
(* Sign-up: calls of signup, resend_otp and verify_otp one after another,  *)
(* minutes passing in between.                                             *)
(***************************************************************************)
OtpValues == {"100000", "999999"}
Passwords == {"Passw0rd1", "Passw0rd2"}

InitOtp ==
    /\ now = 0
    /\ districts = InitDistricts
    /\ schools = InitSchools
    /\ dashboard_records = {}
    /\ intake_queue = {}
    /\ audit_logs = {}
    /\ files = {}
    /\ seq = InitSequences
    /\ sess = [p \in Workers |-> IdleSess]
    /\ nreq = 0
    /\ resp = NoResp
    /\ env = [cap |-> 0, forms |-> {}]
    /\ scope_resp = NoScopeResp
    /\ dup_case = NoDupCase
    /\ calc = NoCalc
    /\ vault = NoVault
    /\ auth = NoAuth

NextOtp ==
    \/ \E email \in AuthEmails, otp \in OtpValues :
           auth.ncall < MaxOtpCalls /\ Signup(email, "Passw0rd1", otp)
    \/ \E email \in AuthEmails, otp \in OtpValues :
           auth.ncall < MaxOtpCalls /\ ResendOtp(email, otp)
    \/ \E email \in AuthEmails, otp \in OtpValues :
           auth.ncall < MaxOtpCalls /\ VerifyOtp(email, otp)
    \/ AuthTick

SpecOtp == InitOtp /\ [][NextOtp]_vars

(***************************************************************************)
(* Password reset: calls of forgot_password and reset_password by two      *)
(* verified users, minutes passing in between.                             *)
(***************************************************************************)
ResetEmails == AuthEmails \cup {"zed@example.com"}
ResetTokens == 1..MaxResetCalls

VerifiedUsers ==
    { User("ana@example.com", hash_password("Passw0rd1", 1), TRUE),
      User("ben@example.com", hash_password("Passw0rd1", 2), TRUE) }

InitReset ==
    /\ now = 0
    /\ districts = InitDistricts
    /\ schools = InitSchools
    /\ dashboard_records = {}
    /\ intake_queue = {}
    /\ audit_logs = {}
    /\ files = {}
    /\ seq = InitSequences
    /\ sess = [p \in Workers |-> IdleSess]
    /\ nreq = 0
    /\ resp = NoResp
    /\ env = [cap |-> 0, forms |-> {}]
    /\ scope_resp = NoScopeResp
    /\ dup_case = NoDupCase
    /\ calc = NoCalc
    /\ vault = NoVault
    /\ auth = [NoAuth EXCEPT !.users = VerifiedUsers, !.salt = 3]

NextReset ==
    \/ \E email \in ResetEmails :
           auth.ncall < MaxResetCalls /\ ForgotPassword(email)
    \/ \E token \in ResetTokens, new_password \in Passwords :
           auth.ncall < MaxResetCalls /\ ResetPassword(token, new_password)
    \/ AuthTick

SpecReset == InitReset /\ [][NextReset]_vars

(***************************************************************************)
(* Concurrent submissions of different students naming schools that are    *)
(* not in the schools table.                                               *)
(***************************************************************************)
NewSchoolForms ==
    { [BaseForm EXCEPT !.school = "Elm"],
      [BaseForm EXCEPT !.school = "Ash", !.first_name = "Ben",
                       !.full_name = "Ben Lee", !.parent_email = "ben@example.com"],
      [BaseForm EXCEPT !.school = "Ash", !.first_name = "Cy",
                       !.full_name = "Cy Lee", !.parent_email = "cy@example.com"] }

InitNewSchool ==
    /\ now = 0
    /\ districts = InitDistricts
    /\ schools = InitSchools
    /\ dashboard_records = {}
    /\ intake_queue = {}
    /\ audit_logs = {}
    /\ files = {}
    /\ seq = InitSequences
    /\ sess = [p \in Workers |-> IdleSess]
    /\ nreq = 0
    /\ resp = NoResp
    /\ env = [cap |-> MaxNewSchoolReq, forms |-> NewSchoolForms]
    /\ scope_resp = NoScopeResp
    /\ dup_case = NoDupCase
    /\ calc = NoCalc
    /\ vault = NoVault
    /\ auth = NoAuth

NextNewSchool ==
    \/ \E p \in Workers, f \in env.forms : SubmitBegin(p, f, 200)
    \/ \E p \in Workers : SubmitResolve(p)
    \/ \E p \in Workers : SubmitUnblock(p)
    \/ \E p \in Workers : SubmitFiles(p)
    \/ \E p \in Workers : SubmitCommit(p)

SpecNewSchool == InitNewSchool /\ [][NextNewSchool]_vars

(***************************************************************************)
(* One call of a function of utils.py on each input of its universe.       *)
(***************************************************************************)
GradeNums == {NoNum, 0, 1, 5, 6, 8, 9, 10, 12, 13}
GradeRests == {"", "th", "TH", "st", "nd", "rd", "th ", " ", "k", "K", "PK", "pk",
               "Pre-K", "PreK", "prek", "Kindergarten", "KINDERGARTEN", "first", "x"}
Grades == {GradeStr(n, r) : n \in GradeNums, r \in GradeRests}

FiscalDates == [y : 2024..2026, m : 1..12, d : {1, 15, 28}]

\* a byte of the token is changed; the token is cut short
Flip(token) == token \o "~"
Cut(token) == "cut " \o token

PhiTexts == Plaintexts \cup {""}
Ciphers ==
    {""} \cup {encrypt_phi(x) : x \in PhiTexts}
         \cup {Flip(encrypt_phi(x)) : x \in Plaintexts}
         \cup {Cut(encrypt_phi(x)) : x \in Plaintexts}

CalcCases ==
    {[NoCalc EXCEPT !.fn = "grade", !.grade = g] : g \in Grades}
        \cup {[NoCalc EXCEPT !.fn = "fiscal", !.date = dt] : dt \in FiscalDates}
        \cup {[NoCalc EXCEPT !.fn = "vault", !.text = x, !.cipher = c] :
                  x \in PhiTexts, c \in Ciphers}

InitCalc ==
    /\ now = 0
    /\ districts = InitDistricts
    /\ schools = InitSchools
    /\ dashboard_records = {}
    /\ intake_queue = {}
    /\ audit_logs = {}
    /\ files = {}
    /\ seq = InitSequences
    /\ sess = [p \in Workers |-> IdleSess]
    /\ nreq = 0
    /\ resp = NoResp
    /\ env = [cap |-> 0, forms |-> {}]
    /\ scope_resp = NoScopeResp
    /\ dup_case = NoDupCase
    /\ calc \in CalcCases
    /\ vault = NoVault
    /\ auth = NoAuth

NextCalc == CalcApply

SpecCalc == InitCalc /\ [][NextCalc]_vars

(***************************************************************************)
(* Submissions and the dashboard endpoints.                                *)
(***************************************************************************)
ScopeForms ==
    { BaseForm,
      [BaseForm EXCEPT !.school = "Ash", !.service_request_type = "opt_in_future"] }

InitScope ==
    /\ now = 0
    /\ districts = InitDistricts
    /\ schools = InitSchools
    /\ dashboard_records = {}
    /\ intake_queue = {}
    /\ audit_logs = {}
    /\ files = {}
    /\ seq = InitSequences
    /\ sess = [p \in Workers |-> IdleSess]
    /\ nreq = 0
    /\ resp = NoResp
    /\ env = [cap |-> MaxScopeReq, forms |-> ScopeForms]
    /\ scope_resp = NoScopeResp
    /\ dup_case = NoDupCase
    /\ calc = NoCalc
    /\ vault = NoVault
    /\ auth = NoAuth

NextScope ==
    \/ \E f \in env.forms : SubmitBegin("w1", f, 200)
    \/ SubmitResolve("w1")
    \/ SubmitFiles("w1")
    \/ SubmitCommit("w1")
    \/ \E token \in Tokens, filter \in Filters, district_id \in DistrictParams,
          school_id \in SchoolParams :
           GetDashboardSummary(token, filter, district_id, school_id)
    \/ \E token \in Tokens, filter \in Filters, district_id \in DistrictParams,
          school_id \in SchoolParams :
           GetDashboardTrends(token, filter, district_id, school_id)
    \/ \E token \in Tokens, filter \in Filters, district_id \in DistrictParams :
           GetDistrictBreakdown(token, filter, district_id)
    \/ \E token \in Tokens, filter \in Filters, district_id \in DistrictParams,
          school_id \in SchoolParams :
           GetSchoolBreakdown(token, filter, district_id, school_id)
    \/ \E token \in Tokens, filter \in Filters, district_id \in DistrictIdStrings,
          school_id \in SchoolIdStrings :
           GetDistrictsSchools(token, filter, district_id, school_id)

SpecScope == InitScope /\ [][NextScope]_vars

(***************************************************************************)
(* The duplicate check over stored rows of every age and spelling.         *)
(***************************************************************************)
\* forms whose rows are stored, and forms that are checked against them
DupStored ==
    { BaseForm,
      [BaseForm EXCEPT !.first_name = "ANA", !.last_name = "LEE",
                       !.parent_email = "Ana@Example.com"],
      [BaseForm EXCEPT !.dob = DateStr(2012, 4, 1, FALSE, FALSE, "iso")],
      [BaseForm EXCEPT !.dob = DateStr(2012, 4, 2, TRUE, TRUE, "iso")],
      [InsuredForm EXCEPT !.insurance_card_front = NoFile] }

DupInputs ==
    DupStored \cup
    { [BaseForm EXCEPT !.last_name = "Ray"],
      [BaseForm EXCEPT !.parent_email = "bo@example.com"],
      [BaseForm EXCEPT !.dob = DateStr(2012, 4, 1, TRUE, FALSE, "iso")] }

DupRows ==
    { [IntakeQueue(1, Parsed(f), NoFileName, NoFileName, t) EXCEPT !.id = 1] :
          f \in DupStored, t \in 0..MaxTime }

InitDup ==
    /\ now = MaxTime
    /\ districts = InitDistricts
    /\ schools = InitSchools
    /\ dashboard_records = {}
    /\ intake_queue \in {{}} \cup {{r} : r \in DupRows}
    /\ audit_logs = {}
    /\ files = {}
    /\ seq = InitSequences
    /\ sess = [p \in Workers |-> IdleSess]
    /\ nreq = 0
    /\ resp = NoResp
    /\ env = [cap |-> 0, forms |-> {}]
    /\ scope_resp = NoScopeResp
    /\ dup_case \in {[NoDupCase EXCEPT !.form = f] : f \in DupInputs}
    /\ calc = NoCalc
    /\ vault = NoVault
    /\ auth = NoAuth

NextDup == DupApply

SpecDup == InitDup /\ [][NextDup]_vars

(***************************************************************************)
(* Properties of submit_intake_form                                        *)
(***************************************************************************)
\* a step that answers a submission: a rejection by SubmitBegin, or the end
\* of the request of worker p
SubmitRejectedAtOnce == nreq' = nreq + 1 /\ sess' = sess /\ resp'.op = "submit"
SubmitEnds(p) == sess[p].op = "submit" /\ sess'[p].pc = "done"
SubmitAccepted(p) == SubmitEnds(p) /\ resp'.code = 200

NewDashboard == dashboard_records' \ dashboard_records
NewQueue == intake_queue' \ intake_queue
NewAudit == audit_logs' \ audit_logs

CreateAuditOf(d) ==
    {a \in audit_logs : a.action = "create" /\ a.details.student_uuid = d.student_uuid}

C1_OneOfEach ==
    \A p \in Workers : SubmitAccepted(p) =>
        /\ Cardinality(NewDashboard) = 1
        /\ Cardinality(NewQueue) = 1
        /\ Cardinality(NewAudit) = 1
        /\ \A d \in NewDashboard, q \in NewQueue, a \in NewAudit :
              /\ d.service_status = "pending"
              /\ d.student_uuid = resp'.handle
              /\ q.dashboard_record_id = d.id
              /\ q.id # NoId
              /\ a.action = "create"
              /\ a.details.student_uuid = d.student_uuid
              /\ dashboard_records' = dashboard_records \cup {d}
              /\ intake_queue' = intake_queue \cup {q}
              /\ audit_logs' = audit_logs \cup {a}

C1_AtMostOneQueue ==
    \A d \in dashboard_records : Cardinality(QueueOf(d)) <= 1

\* C1: every accepted submission adds exactly one DashboardRecord (pending),
\* exactly one IntakeQueue row linked to it through dashboard_record_id and
\* exactly one 'create' audit entry; no DashboardRecord ever has more than
\* one IntakeQueue row.
C1_SubmitCreatesOnePair == [][C1_OneOfEach]_vars /\ []C1_AtMostOneQueue

\* two submissions have been accepted, the second one just now
C1_Witness ==
    /\ resp.op = "submit" /\ resp.code = 200
    /\ Cardinality(dashboard_records) = 2
    /\ Cardinality(intake_queue) = 2

C2_FailureKeepsNothing ==
    /\ SubmitRejectedAtOnce => UNCHANGED dbvars
    /\ \A p \in Workers : (SubmitEnds(p) /\ resp'.code # 200) => UNCHANGED dbvars

C2_PairComplete ==
    \A d \in dashboard_records : QueueOf(d) # {} /\ CreateAuditOf(d) # {}

\* C2: a submission that fails before its commit leaves every table as it
\* was, and no committed DashboardRecord is without its IntakeQueue row and
\* its 'create' audit entry.
C2_FailureRollsBack == [][C2_FailureKeepsNothing]_vars /\ []C2_PairComplete

\* the back card was rejected after the dashboard row was flushed and the
\* front card was stored: nothing of the submission is in the tables
C2_Witness ==
    /\ resp.op = "submit" /\ resp.code = 400
    /\ seq.dashboard > 1
    /\ files # {}
    /\ dashboard_records = {}

(***************************************************************************)
(* Properties of the authenticated intake handlers                         *)
(***************************************************************************)
\* the principal of a token; a global admin has the role admin or a listed
\* e-mail; a district-scoped principal is any other one with a home district
Principal(token) == get_user_from_token(token)
GlobalAdmin(token) ==
    token \in UserIds /\ (Principal(token).role = "admin" \/ is_vpm_admin(Principal(token)))
NonAdmin(token) == token \in UserIds /\ ~GlobalAdmin(token)
HomeDistrict(token) == Principal(token).district_id
DistrictScoped(token) == NonAdmin(token) /\ HomeDistrict(token) # NoId

RecordOf(identifier) == {d \in dashboard_records : d.student_uuid = identifier}

\* the step of one handler call that is answered at once
HandlerStep(op) == nreq' = nreq + 1 /\ resp'.op = op /\ sess' = sess

\* the step of an update handler call of worker p that runs up to the first
\* commit
UpdateStep(p) == nreq' = nreq + 1 /\ sess'[p].pc \in AuditPcs

C3_Step ==
    HandlerStep("details") =>
        /\ (/\ DistrictScoped(resp'.user)
            /\ \E d \in RecordOf(resp'.handle) :
                   d.district_id # HomeDistrict(resp'.user))
           => (resp'.code = 403 /\ resp'.phi = {})
        /\ (/\ GlobalAdmin(resp'.user)
            /\ \E d \in RecordOf(resp'.handle) : QueueOf(d) # {})
           => resp'.code = 200

\* C3: get_intake_form_details answers Forbidden, without PHI, to a
\* district-scoped principal asking for a handle of another district, and
\* succeeds for a global admin asking for an existing, unpurged handle.
C3_DetailsScoped == [][C3_Step]_vars

\* the PHI text values a client may send, as submit and update store them
FormTexts(f) ==
    { f.first_name, f.last_name, f.full_name, f.student_id, f.parent_name,
      f.parent_email, f.parent_phone, f.insurance_company, f.policyholder_name,
      f.relationship, f.member_id, f.group_number, f.service_category_other,
      f.sex_at_birth, f.race_other, "Ann Ray" } \ {None}
PhiInputs == UNION {{Strip(v) : v \in FormTexts(f)} : f \in Forms \cup UpdatePayloads}
PassedThroughVault(v) == \E x \in PhiInputs : v = encrypt_phi(x)

\* C4: every PHI text value held by an IntakeQueue row has passed through
\* encrypt_phi: no state holds a PHI field in plaintext at rest.
C4_PhiEncryptedAtRest ==
    \A q \in intake_queue : \A v \in PhiOf(q) : PassedThroughVault(v)

\* C5: a DashboardRecord holds no PHI identity value: its student_name is
\* never a value of a PHI field of a queue row.
C5_DashboardHoldsNoPhi ==
    \A d \in dashboard_records : \A q \in intake_queue :
        d.student_name \notin PhiOf(q)

C8_Step ==
    (HandlerStep("update") \/ HandlerStep("status")) =>
        /\ (/\ NonAdmin(resp'.user)
            /\ \E d \in RecordOf(resp'.handle) :
                   HomeDistrict(resp'.user) # d.district_id)
           => UNCHANGED <<dashboard_records, intake_queue>>
        /\ resp'.user \notin UserIds => UNCHANGED <<dashboard_records, intake_queue>>

C8_Commit ==
    \A p \in Workers :
        (/\ UpdateStep(p)
         /\ NonAdmin(sess'[p].user)
         /\ \E d \in RecordOf(sess'[p].handle) :
                HomeDistrict(sess'[p].user) # d.district_id)
        => UNCHANGED <<dashboard_records, intake_queue>>

\* C8: update_intake_form and update_intake_status change nothing of an
\* intake's DashboardRecord and IntakeQueue row when the caller is a
\* non-admin principal whose home district is not the record's district (or
\* who has none), or is not authenticated.
C8_UpdateWithinScope == [][C8_Step /\ C8_Commit]_vars

(***************************************************************************)
(* Properties of the dashboard endpoints                                   *)
(***************************************************************************)
ScopeResolved == {"summary", "trends", "school-breakdown", "districts-schools"}
DistrictFiltered == ScopeResolved \cup {"district-breakdown"}

\* the request was well formed: no parameter was refused
WellFormed == scope_resp.code # 400

\* C6: on summary, trends, school-breakdown and districts-schools a
\* non-admin principal without home district is answered Forbidden, and so
\* is one that requests a district other than its home district; in both
\* cases no DashboardRecord query has been executed.
C6_ScopeRejects ==
    (/\ scope_resp.endpoint \in ScopeResolved
     /\ NonAdmin(scope_resp.user)
     /\ WellFormed)
    => /\ HomeDistrict(scope_resp.user) = NoId
          => (scope_resp.code = 403 /\ ~scope_resp.queried)
       /\ (scope_resp.district_id # NoParam
           /\ scope_resp.district_id # HomeDistrict(scope_resp.user))
          => (scope_resp.code = 403 /\ ~scope_resp.queried)

\* C7: on every endpoint with a district filter a non-admin principal with
\* a home district that requests no district or its home district is
\* admitted, and whatever is counted or returned belongs to the home
\* district.
C7_PinnedToHome ==
    (/\ scope_resp.endpoint \in DistrictFiltered
     /\ DistrictScoped(scope_resp.user)
     /\ WellFormed
     /\ scope_resp.district_id \in {NoParam, HomeDistrict(scope_resp.user)})
    => /\ scope_resp.code = 200
       /\ \A r \in scope_resp.records : r.district_id = HomeDistrict(scope_resp.user)
       /\ \A sc \in scope_resp.schools : sc.district_id = HomeDistrict(scope_resp.user)
       /\ \A d \in scope_resp.districts : d.id = HomeDistrict(scope_resp.user)

(***************************************************************************)
(* Properties of the duplicate check                                       *)
(***************************************************************************)
\* the row and the parsed form agree on the four identity fields: names and
\* e-mail without regard to case, date of birth as a date
SameIdentity(q, pf) ==
    /\ Lower(OrEmpty(q.student_first_name)) = Lower(pf.first_name)
    /\ Lower(OrEmpty(q.student_last_name)) = Lower(pf.last_name)
    /\ Lower(OrEmpty(q.parent_email)) = Lower(pf.parent_email)
    /\ StrptimeOk(pf.dob) /\ q.date_of_birth = Strptime(pf.dob)

\* SubmitBegin passes the form on to the school lookup
PassedDuplicateCheck(p) ==
    nreq' = nreq + 1 /\ sess'[p].pc = "submit_resolve"

C9_Step ==
    /\ \A p \in Workers : PassedDuplicateCheck(p) =>
          ~\E q \in intake_queue :
               /\ SameIdentity(q, Parsed(sess'[p].form))
               /\ now - q.created_at < DupWindowMinutes
    /\ (SubmitRejectedAtOnce /\ resp'.code = 409) =>
          /\ \E q \in intake_queue :
                /\ SameIdentity(q, Parsed(resp'.form))
                /\ now - q.created_at <= DupWindowMinutes
          /\ UNCHANGED <<dbvars, files>>
    /\ \A p \in Workers : SubmitAccepted(p) => resp'.status = "pending"

\* C9: of sequential submissions of one identity the first is accepted as
\* pending; one made while a queue row of that identity is less than 5
\* minutes old is answered 409 and creates nothing; one made after the
\* window has elapsed is accepted again.
C9_DuplicateWindow == [][C9_Step]_vars

\* C10: check_duplicate_submission is true exactly when a queue row
\* created within the trailing window agrees with the submission on first
\* name, last name and e-mail without regard to case and on the date of
\* birth as a date, whatever the accepted spelling of the date.
C10_DuplicateExactly ==
    dup_case.applied =>
        (dup_case.result <=>
            \E q \in intake_queue :
                /\ q.created_at >= now - DupWindowMinutes
                /\ SameIdentity(q, Parsed(dup_case.form)))

(***************************************************************************)
(* Properties of interleaved submissions                                   *)
(***************************************************************************)
\* worker p is about to commit while a row of the same identity, committed
\* after p ran its duplicate check, is inside the window
Overtaken(p) ==
    /\ sess[p].pc = "submit_commit"
    /\ \E q \in intake_queue :
          /\ SameIdentity(q, Parsed(sess[p].form))
          /\ q.created_at >= now - DupWindowMinutes

C11_Step ==
    \A p \in Workers :
        (Overtaken(p) /\ sess'[p].pc = "done" /\ resp'.code # 500) =>
            /\ resp'.code = 200
            /\ Cardinality(NewDashboard) = 1
            /\ Cardinality(NewQueue) = 1
            /\ Cardinality(NewAudit) = 1
            /\ \A d \in NewDashboard, q \in NewQueue, a \in NewAudit :
                  /\ d.student_uuid = resp'.handle
                  /\ \A e \in dashboard_records : e.student_uuid # d.student_uuid
                  /\ q.dashboard_record_id = d.id
                  /\ a.action = "create" /\ a.details.student_uuid = d.student_uuid
            /\ dashboard_records \subseteq dashboard_records'
            /\ intake_queue \subseteq intake_queue'
            /\ audit_logs \subseteq audit_logs'

C11_PairsApart ==
    /\ \A d, e \in dashboard_records : d.student_uuid = e.student_uuid => d = e
    /\ \A d \in dashboard_records :
          Cardinality(QueueOf(d)) = 1 /\ Cardinality(CreateAuditOf(d)) = 1

\* C11: a submission whose duplicate check ran before a submission of the
\* same identity committed is not stopped by that row: its commit is accepted
\* and adds a second DashboardRecord / IntakeQueue pair under a handle of its
\* own; every pair has exactly one queue row and one 'create' audit entry.
C11_RaceAcceptsBoth == [][C11_Step]_vars /\ []C11_PairsApart

\* both of two interleaved submissions of one identity, spelled alike, have
\* been accepted
C11_Witness ==
    /\ resp.op = "submit" /\ resp.code = 200
    /\ resp.form.dob.mpad /\ resp.form.dob.dpad
    /\ \E q1, q2 \in intake_queue :
          /\ q1.dashboard_record_id # q2.dashboard_record_id
          /\ SameIdentity(q1, Parsed(resp.form))
          /\ SameIdentity(q2, Parsed(resp.form))
          /\ q1.student_first_name = q2.student_first_name
          /\ q1.parent_email = q2.parent_email
          /\ q1.created_at = q2.created_at

(***************************************************************************)
(* Properties of update_intake_status                                      *)
(***************************************************************************)
\* the queue row of the same primary key after the step
SameRow(q) == {r \in intake_queue' : r.id = q.id}

\* worker p has run a status call up to its first commit
StatusStep(p) == UpdateStep(p) /\ sess'[p].op = "status"

\* the audit commit of the status call of worker p answers 200
StatusAnswered(p) ==
    sess[p].pc = "status_audit" /\ sess'[p].pc = "done" /\ resp'.code = 200

C12_Kept ==
    \A q \in intake_queue : q.processed =>
        /\ SameRow(q) # {}
        /\ \A r \in SameRow(q) : /\ r.processed
                                  /\ r.processed_at = q.processed_at
                                  /\ r.processed_by = q.processed_by

C12_Set ==
    \A p \in Workers :
        (StatusStep(p) /\ sess'[p].new_status = "processed") =>
            \A d \in RecordOf(sess'[p].handle) : \A q \in QueueOf(d) :
                /\ (~q.processed /\ d.service_status # "processed") =>
                       \A r \in SameRow(q) : /\ r.processed
                                              /\ r.processed_at = now
                                              /\ r.processed_by = sess'[p].user
                /\ d.service_status = "processed" =>
                       UNCHANGED <<dashboard_records, intake_queue>>

C12_Again ==
    /\ HandlerStep("status") => resp'.code \in {401, 404, 422}
    /\ \A p \in Workers :
          (/\ sess[p].pc = "status_audit" /\ sess'[p].pc = "done"
           /\ sess[p].old_status = "processed" /\ sess[p].new_status = "processed"
           /\ resp'.code # 500)
          => resp'.code = 200

C12_Unstamped ==
    \A q \in intake_queue :
        ~q.processed => (q.processed_at = NoTime /\ q.processed_by = NoId)

\* C12: over sequential status calls of any users, processed_at and
\* processed_by of a queue row are set by the first transition into
\* 'processed' (to the time and the caller of that call) and no later step
\* changes them, also when the record leaves 'processed' and enters it
\* again; asking for 'processed' when the record is processed is answered
\* 200 and changes nothing.
C12_ProcessedOnce ==
    [][C12_Kept /\ C12_Set /\ C12_Again]_vars /\ []C12_Unstamped

\* the record has entered 'processed' a second time, later and by another
\* user than the first time, and the row keeps the first stamp
C12_Witness ==
    /\ resp.op = "status" /\ resp.code = 200 /\ resp.status = "processed"
    /\ \E d \in dashboard_records : \E q \in QueueOf(d) :
          /\ d.service_status = "processed"
          /\ q.processed
          /\ q.processed_at < d.updated_at
          /\ q.processed_by # resp.user

C13_Begin ==
    \A p \in Workers : StatusStep(p) =>
        \A d \in RecordOf(sess'[p].handle) :
            /\ sess'[p].old_status = d.service_status
            /\ sess'[p].record = d.id
            /\ \A e \in dashboard_records' :
                  e.id = d.id => e.service_status = sess'[p].new_status

C13_End ==
    \A p \in Workers : StatusAnswered(p) =>
        /\ Cardinality(NewAudit) = 1
        /\ audit_logs \subseteq audit_logs'
        /\ \A a \in NewAudit :
              /\ a.action = "update_status"
              /\ a.user_id = sess[p].user
              /\ a.resource_id = sess[p].record
              /\ a.details.student_uuid = resp'.handle
              /\ a.details.old_status = sess[p].old_status
              /\ a.details.new_status = resp'.status
              /\ \A d \in RecordOf(resp'.handle) :
                    d.service_status = a.details.new_status

\* C13: a status call that is answered 200 has appended exactly one
\* 'update_status' audit entry; its old_status is the status the record had
\* when the call began, its new_status the requested status, which is the
\* status the record has now; so also when both are equal.
C13_StatusAudited == [][C13_Begin /\ C13_End]_vars

\* one answered call changed the status, another one asked for the status
\* the record already had: each left its entry
C13_Witness ==
    /\ resp.op = "status" /\ resp.code = 200
    /\ \E a, b \in audit_logs :
          /\ a.action = "update_status" /\ b.action = "update_status"
          /\ a.details.old_status = a.details.new_status
          /\ b.details.old_status # b.details.new_status

\* the audit entries written for changes of record d
ChangeAuditOf(d) ==
    {a \in audit_logs : a.action \in {"update", "update_status"} /\ a.resource_id = d.id}

\* C14: when no handler is between its steps, every DashboardRecord that
\* was changed by update_intake_status or update_intake_form has an
\* 'update_status' or 'update' audit entry.
C14_ChangeHasAudit ==
    (\A p \in Workers : Free(p)) =>
        \A d \in dashboard_records : d.updated_at # NoTime => ChangeAuditOf(d) # {}

(***************************************************************************)
(* Properties of update_intake_form                                        *)
(***************************************************************************)
\* the fields of a patch, section by section
PatchStudent(upd) ==
    <<upd.first_name, upd.last_name, upd.full_name, upd.grade, upd.school,
      upd.dob, upd.student_id>>
PatchContact(upd) == <<upd.parent_name, upd.parent_email, upd.parent_phone>>
PatchInsurance(upd) ==
    <<upd.has_insurance, upd.insurance_company, upd.policyholder_name,
      upd.relationship, upd.member_id, upd.group_number,
      upd.insurance_card_front, upd.insurance_card_back>>
PatchService(upd) ==
    <<upd.service_category, upd.service_category_other, upd.severity_of_concern,
      upd.type_of_service_needed, upd.family_resources, upd.referral_concern>>
PatchDemographics(upd) ==
    <<upd.sex_at_birth, upd.race, upd.race_other, upd.ethnicity>>

\* the patch holds a field of the section
HasStudent(upd) == PatchStudent(upd) # PatchStudent(EmptyForm)
HasContact(upd) == PatchContact(upd) # PatchContact(EmptyForm)
HasInsuranceSection(upd) == PatchInsurance(upd) # PatchInsurance(EmptyForm)
HasService(upd) == PatchService(upd) # PatchService(EmptyForm)
HasDemographics(upd) == PatchDemographics(upd) # PatchDemographics(EmptyForm)

\* the stored fields of a queue row, section by section
StudentFields(q) ==
    <<q.student_first_name, q.student_last_name, q.student_full_name,
      q.student_id, q.student_grade, q.date_of_birth>>
ContactFields(q) == <<q.parent_name, q.parent_email, q.parent_phone>>
InsuranceTexts(q) ==
    <<q.insurance_company, q.policyholder_name, q.relationship_to_student,
      q.member_id, q.group_number>>
InsuranceCards(q) == <<q.insurance_card_front_url, q.insurance_card_back_url>>
ServiceFields(q) ==
    <<q.service_category, q.service_category_other, q.severity_of_concern,
      q.type_of_service_needed, q.family_resources, q.referral_concern>>
DemographicFields(q) == <<q.sex_at_birth, q.race, q.race_other, q.ethnicity>>

\* worker p has run a form update up to its commit: the call is accepted
FormStep(p) == UpdateStep(p) /\ sess'[p].op = "update"

\* the queue rows of the intake a form update of p is about, before it
RowsOf(p) == UNION {QueueOf(d) : d \in RecordOf(sess'[p].handle)}

C15_Step ==
    \A p \in Workers : FormStep(p) =>
        \A q \in RowsOf(p) :
            /\ SameRow(q) # {}
            /\ \A r \in SameRow(q) :
                  LET upd == sess'[p].form
                  IN  /\ ~HasStudent(upd) => StudentFields(r) = StudentFields(q)
                      /\ ~HasContact(upd) => ContactFields(r) = ContactFields(q)
                      /\ ~HasInsuranceSection(upd) =>
                             /\ InsuranceTexts(r) = InsuranceTexts(q)
                             /\ InsuranceCards(r) = InsuranceCards(q)
                      /\ ~HasService(upd) => ServiceFields(r) = ServiceFields(q)
                      /\ ~HasDemographics(upd) =>
                             DemographicFields(r) = DemographicFields(q)

\* C15: an accepted update_intake_form leaves every section of the
\* IntakeQueue row untouched of which the patch holds no field and no file:
\* student-info, contact, insurance (texts and card files), service-needs
\* and demographics each keep all their stored values.
C15_OmittedUntouched == [][C15_Step]_vars

\* a patch of the contact section alone was applied: the contact is the
\* new one, the other sections hold what was submitted
C15_Witness ==
    /\ resp.op = "update" /\ resp.code = 200
    /\ HasContact(resp.form) /\ ~HasStudent(resp.form)
    /\ ~HasInsuranceSection(resp.form) /\ ~HasDemographics(resp.form)
    /\ \E q \in intake_queue :
          /\ q.parent_name = "Sam Lee"
          /\ q.student_first_name = "Bo"
          /\ q.insurance_company = "Acme Health"
          /\ q.insurance_card_front_url # NoFileName
          /\ q.sex_at_birth = "F"

\* the value a patch gives for a text field and for a list field; none
\* when the patch does not hold the field
Given(v) == parse_nested_field(v)
GivenList(v) == JsonOrNone(parse_array_field(v))

C16_Step ==
    \A p \in Workers : FormStep(p) =>
        \A q \in RowsOf(p) : \A r \in SameRow(q) :
            LET upd == sess'[p].form
            IN  /\ HasStudent(upd) =>
                      StudentFields(r) =
                          <<Given(upd.first_name), Given(upd.last_name),
                            Given(upd.full_name), Given(upd.student_id),
                            upd.grade, Strptime(upd.dob)>>
                /\ HasContact(upd) =>
                      ContactFields(r) =
                          <<Given(upd.parent_name), Given(upd.parent_email),
                            Given(upd.parent_phone)>>
                /\ HasInsuranceSection(upd) =>
                      InsuranceTexts(r) =
                          <<Given(upd.insurance_company), Given(upd.policyholder_name),
                            Given(upd.relationship), Given(upd.member_id),
                            Given(upd.group_number)>>
                /\ HasService(upd) =>
                      ServiceFields(r) =
                          <<GivenList(upd.service_category),
                            Given(upd.service_category_other),
                            Given(upd.severity_of_concern),
                            GivenList(upd.type_of_service_needed),
                            GivenList(upd.family_resources),
                            GivenList(upd.referral_concern)>>
                /\ HasDemographics(upd) =>
                      DemographicFields(r) =
                          <<Given(upd.sex_at_birth), GivenList(upd.race),
                            Given(upd.race_other), GivenList(upd.ethnicity)>>

\* C16: after an accepted update_intake_form every text or list field of a
\* section of which the patch holds a field has the value the patch gives,
\* and is empty when the patch does not give it.
C16_SectionReplaced == [][C16_Step]_vars

\* a form that submit_intake_form accepts, with the sections the patch
\* holds replaced by the patch's values
AsSubmitted(upd) ==
    LET f1 == IF HasStudent(upd)
              THEN [BaseForm EXCEPT !.first_name = upd.first_name,
                       !.last_name = upd.last_name, !.full_name = upd.full_name,
                       !.grade = upd.grade, !.school = upd.school,
                       !.dob = upd.dob, !.student_id = upd.student_id]
              ELSE BaseForm
        f2 == IF HasContact(upd)
              THEN [f1 EXCEPT !.parent_name = upd.parent_name,
                       !.parent_email = upd.parent_email,
                       !.parent_phone = upd.parent_phone]
              ELSE f1
        f3 == IF HasInsuranceSection(upd)
              THEN [f2 EXCEPT !.has_insurance = upd.has_insurance,
                       !.insurance_company = upd.insurance_company,
                       !.policyholder_name = upd.policyholder_name,
                       !.relationship = upd.relationship,
                       !.member_id = upd.member_id,
                       !.group_number = upd.group_number]
              ELSE f2
        f4 == IF HasService(upd)
              THEN [f3 EXCEPT !.service_category = upd.service_category,
                       !.service_category_other = upd.service_category_other,
                       !.severity_of_concern = upd.severity_of_concern,
                       !.type_of_service_needed = upd.type_of_service_needed,
                       !.family_resources = upd.family_resources,
                       !.referral_concern = upd.referral_concern]
              ELSE f3
    IN  IF HasDemographics(upd)
        THEN [f4 EXCEPT !.sex_at_birth = upd.sex_at_birth, !.race = upd.race,
                 !.race_other = upd.race_other, !.ethnicity = upd.ethnicity]
        ELSE f4

\* submit_intake_form passes the values of the patch's sections
SubmitWouldAccept(upd) == SubmitValidation(Parsed(AsSubmitted(upd)), 200) = 200

C17_Step ==
    /\ (HandlerStep("update") /\ resp'.code = 422) => ~SubmitWouldAccept(resp'.form)
    /\ \A p \in Workers : FormStep(p) => SubmitWouldAccept(sess'[p].form)

\* C17: update_intake_form rejects a patch with 422 only if
\* submit_intake_form rejects the values of its sections, and accepts it
\* only if submit_intake_form accepts them.
C17_SameRules == [][C17_Step]_vars

C18_Step ==
    (HandlerStep("update") /\ resp'.code # 200) =>
        UNCHANGED <<dashboard_records, intake_queue, files>>

C18_CardsStored ==
    \A q \in intake_queue :
        /\ q.insurance_card_front_url # NoFileName =>
               q.insurance_card_front_url \in files
        /\ q.insurance_card_back_url # NoFileName =>
               q.insurance_card_back_url \in files

\* C18: an update_intake_form that is answered with an error leaves the
\* DashboardRecord, the IntakeQueue row and the stored card files as they
\* were, and every card file a row names is in the upload directory.
C18_FailedUpdateKeepsNothing == [][C18_Step]_vars /\ []C18_CardsStored

(***************************************************************************)
(* Properties of retention                                                 *)
(***************************************************************************)
Expired(q) == q.expires_at < now

C19_Step ==
    /\ (/\ HandlerStep("details")
        /\ resp'.user \in UserIds
        /\ \E d \in RecordOf(resp'.handle) : \A q \in QueueOf(d) : Expired(q))
       => resp'.code = 404
    /\ (HandlerStep("check") /\ RecordOf(resp'.handle) # {}) =>
          /\ resp'.code = 200
          /\ UNCHANGED dashboard_records
          /\ \A d \in RecordOf(resp'.handle) : resp'.status = d.service_status

\* C19: a details lookup by handle that is made after the expires_at of
\* the intake's queue row has passed, by more than the whole retention
\* period, is answered 404: the row has been purged; the status lookup by
\* the same handle is answered from the unchanged DashboardRecord.
C19_ExpiredIsPurged == [][C19_Step]_vars

(***************************************************************************)
(* Properties of the audit log and the dashboard records                   *)
(***************************************************************************)
C20_Step ==
    /\ \A a \in audit_logs : a \in audit_logs'
    /\ \A d \in dashboard_records :
          \E e \in dashboard_records' :
              /\ e.id = d.id
              /\ e.student_uuid = d.student_uuid
              /\ e.created_at = d.created_at

\* C20: no step of any operation removes or changes a committed AuditLog
\* entry, and no step removes a committed DashboardRecord: the row of its id
\* and handle stays.
C20_AppendOnly == [][C20_Step]_vars

\* a record was created, looked at and changed: the log holds the entries
\* of all three
C20_Witness ==
    /\ \E d \in dashboard_records : d.updated_at # NoTime
    /\ \E a, b, c \in audit_logs :
          /\ a.action = "create"
          /\ b.action = "view"
          /\ c.action \in {"update", "update_status"}

(***************************************************************************)
(* Properties of the views of PHI                                          *)
(***************************************************************************)
ViewStep == HandlerStep("details") \/ HandlerStep("serve")

ViewAction == IF resp'.op = "details" THEN "view" ELSE "view_file"

C21_OneEntry ==
    \E a \in audit_logs' \ audit_logs :
        /\ audit_logs' \ audit_logs = {a}
        /\ a.user_id = resp'.user
        /\ a.user_id \in UserIds
        /\ a.action = ViewAction
        /\ a.details.student_uuid = resp'.handle
        /\ \E d \in RecordOf(resp'.handle) : a.resource_id = d.id

C21_Step ==
    ViewStep =>
        /\ resp'.code = 200 => C21_OneEntry
        /\ resp'.phi # {} => resp'.code = 200 /\ C21_OneEntry
        /\ resp'.code # 200 => resp'.phi = {} /\ audit_logs' = audit_logs

\* C21: every call of get_intake_form_details or serve_insurance_card that
\* is answered 200 has committed exactly one new audit entry, with the id of
\* the viewing user, the action and the record viewed; a response that
\* carries PHI is such a call; and a call whose audit commit fails (500)
\* carries no PHI and leaves the log as it was.
C21_ViewAudited == [][C21_Step]_vars

\* the details were viewed, a commit of a card view failed or succeeded, and
\* the card was served
C21_Witness ==
    /\ resp.op = "serve"
    /\ resp.code = 200
    /\ resp.phi # {}
    /\ \E a, b \in audit_logs : a.action = "view" /\ b.action = "view_file"

(***************************************************************************)
(* Properties of the vault functions                                       *)
(***************************************************************************)
\* C22: the token encrypt_phi makes of a PHI string x, the empty string
\* included, is decrypted by decrypt_phi to x itself.
C22_RoundTrip ==
    (calc.applied /\ calc.fn = "vault") => calc.round = calc.text

Tampered(c) == \E x \in Plaintexts : c \in {Flip(encrypt_phi(x)), Cut(encrypt_phi(x))}

\* what decrypt_phi returns for the ciphertexts that were not tampered with:
\* the sentinel and the tokens of encrypt_phi
SuccessfulResults == {decrypt_phi(encrypt_phi(x)) : x \in PhiTexts} \cup {decrypt_phi("")}

\* C23: what decrypt_phi answers for a tampered or truncated ciphertext is
\* an error the caller can tell apart from every successful result, the
\* result for the empty-ciphertext sentinel included, and it is no
\* plaintext.
C23_TamperDetected ==
    (calc.applied /\ calc.fn = "vault" /\ Tampered(calc.cipher)) =>
        /\ calc.plain \notin SuccessfulResults
        /\ calc.plain \notin Plaintexts

(***************************************************************************)
(* Properties of the derived fields                                        *)
(***************************************************************************)
OrdinalSuffixes == {"th", "TH", "st", "nd", "rd", "th "}

\* the grade is a number, a numeric string or an ordinal string (surrounding
\* blanks aside)
NumberLike(g) == g.num # NoNum /\ g.rest \in {"", " "} \cup OrdinalSuffixes

BandOfNumber(n) == IF n <= 5 THEN "K-5" ELSE IF n <= 8 THEN "6-8" ELSE "9-12"

\* C26: calculate_grade_band maps a number, a numeric string and an ordinal
\* string by its number n (n <= 5 to K-5, 6..8 to 6-8, n >= 9 to 9-12), the
\* kindergarten aliases in any letter case to K-5, and every other input to
\* K-5.
C26_GradeBand ==
    (calc.applied /\ calc.fn = "grade") =>
        calc.band = IF NumberLike(calc.grade) THEN BandOfNumber(calc.grade.num)
                    ELSE "K-5"

\* the ordinal '8th', on the edge of its band, was mapped
C26_Witness ==
    /\ calc.applied
    /\ calc.fn = "grade"
    /\ calc.grade = GradeStr(8, "th")
    /\ calc.band = "6-8"

\* C27: for every month m of year y calculate_fiscal_period returns the
\* quarter ((m - 7) mod 12) div 3 + 1, which is in 1..4, and the fiscal year
\* y + 1 when m >= 7 and y otherwise.
C27_FiscalPeriod ==
    (calc.applied /\ calc.fn = "fiscal") =>
        /\ calc.period.q = (((calc.date.m - 7) % 12) \div 3) + 1
        /\ calc.period.q \in 1..4
        /\ calc.period.fy = IF calc.date.m >= 7 THEN calc.date.y + 1 ELSE calc.date.y

\* a date of the first half of a year and one of the second were mapped
C27_Witness ==
    /\ calc.applied
    /\ calc.fn = "fiscal"
    /\ calc.date.m = 6
    /\ calc.period = [fy |-> calc.date.y, q |-> 4]

(***************************************************************************)
(* Properties of the validation of a submission                            *)
(***************************************************************************)
\* the form fails one of the rules: a required field is missing, the
\* severity or the request type is not an allowed one, a required list is
\* empty, the date of birth does not parse, the consent is not true
FailsValidation(f) ==
    LET pf == Parsed(f)
    IN  \/ MissingRequired(pf)
        \/ pf.severity_of_concern \notin {"mild", "moderate", "severe"}
        \/ pf.service_category = <<>>
        \/ pf.type_of_service_needed = <<>>
        \/ pf.service_request_type \notin {"start_now", "opt_in_future"}
        \/ ~StrptimeOk(pf.dob)
        \/ Lower(pf.authorization_consent) # "true"

C24_Step ==
    /\ (nreq' = nreq + 1 /\ sess' = sess /\ FailsValidation(resp'.form))
           => resp'.code = 422
    /\ (nreq' = nreq + 1 /\ sess' # sess) =>
           \A p \in Workers : sess'[p] # sess[p] => ~FailsValidation(sess'[p].form)

\* C24: a submission whose form fails a validation rule (a required field
\* missing, a severity or request type that is not allowed, an empty
\* service-category or needed-service list, an unparseable date of birth, a
\* consent other than true) is answered 422, the CAPTCHA passing, and is
\* never taken further.
C24_Invalid422 == [][C24_Step]_vars

(***************************************************************************)
(* Properties of the status values                                         *)
(***************************************************************************)
ThreeStatuses == {"pending", "active", "processed"}

C28_OneKey ==
    \A m \in vault.made : vault.read.token = m.token => vault.read.plain = m.text

(***************************************************************************)
(* Properties of concurrent status updates                                 *)
(***************************************************************************)
StatusCommitStep(p) == sess[p].pc = "status_commit" /\ sess'[p].pc = "status_audit"

C29_Step ==
    \A p \in Workers : StatusCommitStep(p) =>
        \A q \in intake_queue : q.processed =>
            \E r \in intake_queue' :
                /\ r.id = q.id
                /\ r.processed_by = q.processed_by
                /\ r.processed_at = q.processed_at

\* C29: when status updates to 'processed' of one record run in sessions
\* next to each other, the commit of a session never writes processed_by or
\* processed_at of a row that a commit has stamped already: the stamp is
\* written once and the one committed first stays.
C29_StampedOnceInRace == [][C29_Step]_vars

(***************************************************************************)
(* Properties of the create audit entry                                    *)
(***************************************************************************)
\* C30: the resource_id of every committed 'create' audit entry is not null
\* and is the id of the IntakeQueue row of the submission the entry is
\* about.
C30_CreateAuditNamesRow ==
    \A a \in audit_logs : a.action = "create" =>
        /\ a.resource_id # NoId
        /\ \E q \in intake_queue, d \in dashboard_records :
              /\ q.id = a.resource_id
              /\ q.dashboard_record_id = d.id
              /\ d.student_uuid = a.details.student_uuid

(***************************************************************************)
(* Properties of the order of the steps of a submission                    *)
(***************************************************************************)
\* the rows a session has added but not committed
PendingRows(s) ==
    s.new_districts \cup s.new_schools \cup s.new_dashboard \cup s.new_queue
        \cup s.new_audit

\* what check_duplicate_submission returns for a raw form at this instant
IsDuplicate(f) ==
    LET pf == Parsed(f)
    IN  check_duplicate_submission(intake_queue, pf.first_name, pf.last_name, pf.dob,
            pf.parent_email, now)

C31_Step ==
    /\ SubmitRejectedAtOnce =>
          /\ UNCHANGED <<dbvars, files>>
          /\ resp'.code = 409 => ~FailsValidation(resp'.form)
    /\ \A p \in Workers :
          /\ (Free(p) /\ sess'[p].pc \in SubmitPcs) =>
                /\ ~FailsValidation(sess'[p].form)
                /\ ~IsDuplicate(sess'[p].form)
                /\ PendingRows(sess'[p]) = {}
                /\ UNCHANGED <<dbvars, files>>
          /\ (PendingRows(sess'[p]) # PendingRows(sess[p]) /\ PendingRows(sess'[p]) # {})
                => sess[p].pc \in SubmitPcs /\ ~FailsValidation(sess[p].form)
    /\ (files' # files \/ dbvars' # dbvars) =>
          \E p \in Workers : sess[p].pc \in SubmitPcs /\ ~FailsValidation(sess[p].form)

\* C31: a submission that is rejected by validation or as a duplicate adds
\* no row and stores no file; a duplicate answer (409) is given only to a
\* form that passes validation; a submission is taken further only when
\* its form passes validation and is no duplicate, and up to there no row
\* was added and no file stored; every row added and every file stored
\* belongs to such a submission.
C31_ValidateThenCheckThenStore == [][C31_Step]_vars

\* an invalid form and a duplicate were rejected after a submission with a
\* card was stored
C31_Witness ==
    /\ resp.code = 409
    /\ dashboard_records # {}
    /\ files # {}

(***************************************************************************)
(* Properties of the processed flag                                        *)
(***************************************************************************)
C32_ProcessedStamped ==
    \A d \in dashboard_records : d.service_status = "processed" =>
        \A q \in QueueOf(d) : /\ q.processed
                              /\ q.processed_at # NoTime
                              /\ q.processed_by # NoId

C32_StaysProcessed ==
    \A q \in intake_queue : q.processed =>
        \A r \in intake_queue' : r.id = q.id => r.processed

\* C32: in every state the queue row of a DashboardRecord whose status is
\* 'processed' has processed = true and processed_at and processed_by set;
\* no step turns processed from true to false.
C32_ProcessedFlag == []C32_ProcessedStamped /\ [][C32_StaysProcessed]_vars

\* a record was processed and then set to active: its row is still
\* processed and carries the stamp
C32_Witness ==
    \E d \in dashboard_records :
        /\ d.service_status = "active"
        /\ \E q \in QueueOf(d) : q.processed /\ q.processed_by \in UserIds

(***************************************************************************)
(* Properties of the stored consent                                        *)
(***************************************************************************)
\* C33: in every state every stored IntakeQueue row has
\* authorization_consent = true.
C33_ConsentStored == \A q \in intake_queue : q.authorization_consent = TRUE

(***************************************************************************)
(* Properties of the reference data of a record                            *)
(***************************************************************************)
SchoolOf(d) == {sc \in schools : sc.id = d.school_id}

\* C34: in every state the district_id of every DashboardRecord is the
\* district_id of the School row its school_id names.
C34_DistrictOfSchool ==
    \A d \in dashboard_records :
        /\ SchoolOf(d) # {}
        /\ \A sc \in SchoolOf(d) : d.district_id = sc.district_id

\* an update has moved a record to a school of another district than the
\* one its submission stored
C34_Witness ==
    /\ resp.op = "update" /\ resp.code = 200
    /\ \E d \in dashboard_records : d.school_id = 2 /\ d.district_id = 2

C35_OneSchoolPerName ==
    /\ \A s1, s2 \in schools : s1.name = s2.name => s1 = s2
    /\ Cardinality({d \in districts : d.code = "DEFAULT"}) <= 1
    /\ \A d \in dashboard_records : SchoolOf(d) # {}

\* a submission that waited for the other one's default district is not
\* answered 500 when it resumes
C35_NoneFails ==
    \A p \in Workers :
        sess[p].pc = "submit_blocked" => ~(SubmitEnds(p) /\ resp'.code = 500)

\* C35: after any interleaving of concurrent submissions that name the same
\* unknown school, no two School rows carry that name, at most one District
\* row has the code 'DEFAULT', every DashboardRecord references a stored
\* school, and no submission fails because of the other.
C35_RaceFree == []C35_OneSchoolPerName /\ [][C35_NoneFails]_vars

(***************************************************************************)
(* Properties of build_period_labels                                       *)
(***************************************************************************)
StrictlyIncreasing(buckets) ==
    \A i \in 1..(Len(buckets) - 1) :
        DateLE(buckets[i], buckets[i + 1]) /\ buckets[i] # buckets[i + 1]

PeriodCalled == calc.fn = "labels" /\ calc.applied

\* the lists a call returned are well formed
PeriodListsOk ==
    LET first == normalize_period_start(calc.start, calc.name)
        last == normalize_period_start(calc.end, calc.name)
        buckets == calc.out.buckets
    IN  /\ Len(calc.out.labels) = Len(buckets)
        /\ StrictlyIncreasing(buckets)
        /\ IF DateLE(first, last)
           THEN buckets # <<>> /\ buckets[1] = first /\ buckets[Len(buckets)] = last
           ELSE buckets = <<>>

\* a call raises exactly when the period after the last bucket starts after
\* date.max; every call that returns gives well-formed lists
PeriodRaisesAtMax ==
    LET first == normalize_period_start(calc.start, calc.name)
        last == normalize_period_start(calc.end, calc.name)
    IN  PeriodCalled =>
            /\ calc.out.raised <=>
                   (DateLE(first, last) /\ next_period(last, calc.name) = DateError)
            /\ ~calc.out.raised => PeriodListsOk

\* C36: every call of build_period_labels with one of the eight period names
\* returns (it raises nothing), its bucket list is strictly increasing, starts
\* at normalize_period_start(start) and ends at normalize_period_start(end)
\* when the normalized start is not after the normalized end, is empty
\* otherwise, and labels and buckets have equal length.
C36_PeriodLabels == PeriodCalled => ~calc.out.raised /\ PeriodListsOk

(***************************************************************************)
(* Properties of password reset tokens and OTPs                            *)
(***************************************************************************)
AuthCalled == auth'.ncall # auth.ncall

\* some user row is replaced in this step: its password hash changes
PasswordChanged ==
    \E u \in auth.users : \E v \in auth'.users :
        u.email = v.email /\ u.password_hash # v.password_hash

\* the reset token is stored, unused, not past expires_at, and the one
\* generated last for its email
TokenValid(token) ==
    \E t \in auth.tokens :
        /\ t.token = token /\ ~t.used
        /\ now <= t.expires_at
        /\ auth.token_issued[t.email] = token

C37_ResetStep ==
    AuthCalled =>
        /\ PasswordChanged =>
              /\ auth'.out.op = "reset_password"
              /\ auth'.out.presented \notin auth.done
              /\ auth'.out.presented \in auth'.done
              /\ TokenValid(auth'.out.presented)
        /\ (auth'.out.op = "reset_password" /\ ~TokenValid(auth'.out.presented)) =>
              /\ auth'.users = auth.users
              /\ auth'.out.message \in {"Invalid or expired reset token",
                                        "Reset token has expired"}

\* C37: a step changes a password hash only if it is a reset_password call
\* whose token has not reset a password before, is stored unused, is not past
\* its expires_at and is the token forgot_password generated last for that
\* email; every other reset_password call is rejected and leaves every
\* password hash unchanged.
C37_TokenOnce == [][C37_ResetStep]_vars

\* a token that has reset a password is presented again and rejected
C37_Witness ==
    /\ auth.out.op = "reset_password"
    /\ auth.out.message = "Invalid or expired reset token"
    /\ auth.out.presented \in auth.done

C38_OneOtpPerEmail ==
    /\ \A o1, o2 \in auth.otps : o1.email = o2.email => o1 = o2
    /\ \A u \in auth.users :
          u.is_verified => ~(\E o \in auth.otps : o.email = u.email)

BecomesVerified(email) ==
    /\ \E u \in auth.users : u.email = email /\ ~u.is_verified
    /\ \E v \in auth'.users : v.email = email /\ v.is_verified

\* the presented OTP is the stored one, generated last for the email, and
\* not past its expires_at
OtpValid(email, otp) ==
    /\ auth.otp_issued[email] = otp
    /\ \E o \in auth.otps : o.email = email /\ o.otp = otp /\ now <= o.expires_at

C38_VerifyStep ==
    AuthCalled =>
        /\ \A email \in AuthEmails :
              BecomesVerified(email) =>
                  /\ auth'.out.op = "verify_otp" /\ auth'.out.email = email
                  /\ OtpValid(email, auth'.out.presented)
                  /\ ~(\E o \in auth'.otps : o.email = email)
        /\ (auth'.out.op = "verify_otp"
                /\ ~OtpValid(auth'.out.email, auth'.out.presented)) =>
              /\ auth'.users = auth.users
              /\ auth'.out.message # "access_token"

\* C38: in every state each email has at most one OTP record and a verified
\* email has none; a step sets is_verified only if it is a verify_otp call
\* presenting the OTP generated last for that email, stored and not past its
\* expires_at, and the step deletes that OTP record; every other verify_otp
\* call fails.
C38_OtpOnce == []C38_OneOtpPerEmail /\ [][C38_VerifyStep]_vars

\* a verification succeeds after an OTP was issued again
C38_Witness ==
    /\ auth.out.op = "verify_otp" /\ auth.out.message = "access_token"
    /\ auth.ncall >= 3
    /\ \E u \in auth.users : u.email = auth.out.email /\ u.is_verified

====
